---- MODULE Spec2Model ----
(***************************************************************************)
(* Model of the RLM orchestrator turn loop (RLMOrchestrator.processQuery), *)
(* its provider calls with model fallback (callConversation, callModel)    *)
(* and the script sandbox (RLMExecutor) it drives (Spec, SpecObservers),   *)
(* of the ContextManager's memory bank and history view (SpecMemory), of   *)
(* ParallelExecutor.executeBatch (SpecParallel, SpecParallelFair), of the  *)
(* ContextRotDetector (SpecDetector), of the AdaptiveCompressor            *)
(* (SpecCompressor), of ContextManager.compressResult (SpecText) and       *)
(* AdaptiveCompressor.compressAdaptively (SpecOutputs), and of the         *)
(* IterativeRefiner (SpecRefiner).                                         *)
(*                                                                         *)
(* The turn loop is also run from other initial states: several            *)
(* processQuery calls on one orchestrator (SpecSessions), a provider whose *)
(* responses ask to be reminded (SpecRot) or report findings               *)
(* (SpecFindings), queries that change the attention weights               *)
(* (SpecAttention), a small token ceiling (SpecUsage), and                 *)
(* executeParallelQueries called after a session (SpecParallelQueries).    *)
(*                                                                         *)
(* A model response is abstracted to what the loop and the sandbox look at:*)
(* whether it holds a fenced code block, the statements of that block, and *)
(* whether its text holds a literal FINAL("...") call.  The statements are *)
(*   "query"  : print(llm_query("..."))                                    *)
(*   "final"  : FINAL("...")                                               *)
(*   "throw"  : a statement that raises at run time (total = missing + 1)  *)
(*   "danger" : a statement matching DANGEROUS_PATTERNS (fetch("..."))     *)
(* The answer text written by the response of turn t is the number t, so   *)
(* answers of different turns are distinguishable; 0 stands for null.      *)
(***************************************************************************)
EXTENDS Integers, Sequences, FiniteSets, TLC

\* ------------------------------------------------------------------ bounds
MaxTurns == 3
MaxScriptLen == 2
\* memory bank: distinct contents, importance scores, findings of one call
MaxContent == 2
MaxImportance == 2
MaxFindings == 2
\* executeBatch: the queries of one call
MaxQueries == 3
\* the processQuery calls made on one orchestrator
MaxCalls == 2
\* compressResult: the lines of a delegated-call output and the number of
\* times the function is applied to its own result
MaxLines == 3
MaxCompressions == 2

\* --------------------------------------------------------------- constants
Null == "null"
NoAnswer == 0

BUILTIN_DEFAULT_MODEL == "gemini-3-flash-preview"
BUILTIN_FALLBACK_MODEL == "gemini-3-flash-preview"
ProModel == "gemini-3-pro-preview"

DefaultMaxSubCalls == 15

VERY_LARGE_files == 200
VERY_LARGE_minCalls == 5
LARGE_files == 100
LARGE_minCalls == 4
MEDIUM_files == 50
MEDIUM_minCalls == 3
SMALL_files == 20
SMALL_minCalls == 2
DEFAULT_MIN == 1

\* DEFAULT_CONFIG of the ContextManager (the fields the model uses)
DEFAULT_CONFIG ==
  [slidingWindowSize |-> 3, maxMemoryEntries |-> 20, maxResultLength |-> 1500]

\* DEFAULT_PARALLEL_CONFIG of the ParallelExecutor
DEFAULT_PARALLEL_CONFIG ==
  [maxConcurrent |-> 3, failFast |-> FALSE, retryCount |-> 1]

\* part_013 178-183
DEFAULT_ADAPTIVE_CONFIG ==
  [targetUsagePercent |-> 70, aggressiveThreshold |-> 80,
   emergencyThreshold |-> 90, minResultLength |-> 500]
\* part_013 195 and part_006 136: the default token ceiling
DefaultMaxContextTokens == 100000
\* ContextRotDetector.maxHistory (part_013 365)
maxHistory == 5

\* DEFAULT_REFINEMENT_CONFIG of the IterativeRefiner (part_013 699-704)
DEFAULT_REFINEMENT_CONFIG ==
  [maxPasses |-> 3, qualityThreshold |-> 85, minImprovement |-> 5]

\* DEFAULT_ATTENTION_WEIGHTS of SelectiveAttention (part_013 510-516), in
\* tenths: 1.0, 1.2, 0.8, 1.5 and 0.7
DEFAULT_ATTENTION_WEIGHTS ==
  [fileAnalysis |-> 10, patterns |-> 12, dependencies |-> 8, issues |-> 15,
   summaries |-> 7]

\* { ...defaults, ...config }: config is a record of the fields given
Spread(defaults, config) ==
  [k \in DOMAIN defaults |->
     IF k \in DOMAIN config THEN config[k] ELSE defaults[k]]
\* a configuration object without fields
NoConfig == [k \in {} |-> Null]
\* new Map()
EmptyMap == [k \in {} |-> Null]

\* Inputs of the model -------------------------------------------------------
\* config.rootModel given to the constructor (Null: not given)
RootModelOptions == {Null, ProModel}
\* RLM_FALLBACK_MODEL / config-file fallback (Null: not configured)
FallbackOptions == {Null}
\* config.maxSubCalls given to the constructor (0: not given)
MaxSubCallsOptions == {0, 2}
\* Object.keys(context.files).length of a session
FileCounts == {10, 30, 200}

\* The query given to processQuery, reduced to what adjustWeightsForQuery
\* looks for in it: a word of the security vocabulary ('security',
\* 'vulnerab', 'auth', 'injection'), of the architecture vocabulary
\* ('architecture', 'structure', 'design', 'pattern'), of the dependency
\* vocabulary ('depend', 'import', 'package', 'module').
Query(security, architecture, dependency) ==
  [security |-> security, architecture |-> architecture,
   dependency |-> dependency]
\* a query that holds none of them
PlainQuery == Query(FALSE, FALSE, FALSE)

Ops == {"query", "final", "throw", "danger"}
Scripts == UNION {[1..n -> Ops] : n \in 1..MaxScriptLen}

\* What ContextRotDetector.analyzeResponse looks at in a response: how many
\* of CONTEXT_ROT_PATTERNS and of CONTEXT_RETENTION_PATTERNS match it, how
\* many '?' it holds, and whether it is bare: longer than 500 characters
\* without 'file_index', 'llm_query' or 'FINAL'.
Signals(rot, retention, questions, bare) ==
  [rot |-> rot, retention |-> retention, questions |-> questions,
   bare |-> bare]
\* a response that holds none of them
Quiet == Signals(0, 0, 0, FALSE)

\* A response of the root model.
Responses ==
  {[hasCode |-> FALSE, ops |-> <<>>, proseFinal |-> b, signals |-> Quiet] :
     b \in BOOLEAN}
  \cup {[hasCode |-> TRUE, ops |-> s, proseFinal |-> FALSE,
          signals |-> Quiet] : s \in Scripts}

NoResponse ==
  [hasCode |-> FALSE, ops |-> <<>>, proseFinal |-> FALSE, signals |-> Quiet]

\* The message of an error thrown by the provider, reduced to the two
\* substrings the code looks for.
ErrorMessages == [has500 : BOOLEAN, hasInternal : BOOLEAN]
ErrorMessage(o) == [has500 |-> o[1], hasInternal |-> o[2]]
\* Outcome of one generateContent call: <<ok, has500, hasInternal>>
Outcomes == {<<TRUE, FALSE, FALSE>>, <<FALSE, TRUE, FALSE>>,
             <<FALSE, FALSE, TRUE>>, <<FALSE, FALSE, FALSE>>}

VARIABLES
  cfg,           \* this.config and this.fallbackModel, resolved at construction
  subCallCount,  \* RLMExecutor.subCallCount
  finalAnswer,   \* RLMExecutor.finalAnswer
  output,        \* RLMExecutor.output
  pc,            \* position of processQuery
  fileCount,     \* Object.keys(context.files).length
  turn,          \* loop variable of processQuery
  turns,         \* turns: RLMTurn[]
  history,       \* history: Content[], the entries pushed since the current
                 \* turn began (for turn 1: since processQuery began)
  histBase,      \* the number of entries of history pushed before those
  response,      \* response of the current turn
  exec,          \* the running executor.execute call and its ExecutorResult
  lastCall,      \* the provider attempts made by the latest step
  progress,      \* the latest RLMProgress given to onProgress; n: how many
                 \* reports the latest step made
  result,        \* the RLMResult returned
  thrown,        \* the error processQuery rejected with
  view,          \* optimizedHistory of the current turn
  \* ContextManager
  ctxConfig,          \* this.config
  memoryBank,         \* this.memoryBank
  compressedHistory,  \* this.compressedHistory
  lastOp,             \* the latest ContextManager call and what it discarded
  \* ParallelExecutor and one executeBatch call
  peConfig,      \* this.config
  queries,       \* the number of queries given; their ids are 1..queries
  batch,         \* the index of the batch being awaited
  tasks,         \* per query: the position of its batch.map callback
  inflight,      \* the delegate invocations that have not completed
  results,       \* results: Map<string, string>
  errors,        \* errors: Map<string, Error>
  peState,       \* the executeBatch call: idle, running, returned, threw
  \* the provider and the caller of the orchestrator
  provider,      \* what the texts generated by the provider can hold
  pending,       \* the processQuery calls the caller has still to make
  observed,      \* the turn records given to onTurnComplete by this call
  asks,          \* the queries the caller may give to processQuery
  \* AdaptiveCompressor
  acConfig,          \* this.config
  maxContextTokens,  \* this.maxContextTokens
  currentUsage,      \* this.currentUsage
  acResult,          \* the latest call made by a user of the compressor
  \* ContextRotDetector
  recentResponses,       \* this.recentResponses
  memoryReferenceCount,  \* this.memoryReferenceCount
  rotIndicatorCount,     \* this.rotIndicatorCount
  rotIndicators,         \* the ContextRotIndicators returned latest
  \* IterativeRefiner
  rfConfig,      \* this.config
  passHistory,   \* this.passHistory
  \* SelectiveAttention
  weights,       \* this.weights, in tenths
  queryContext,  \* this.queryContext
  \* ContextManager.compressResult
  texts          \* a delegated-call output and its successive compressions

compressorVars == <<acConfig, maxContextTokens, currentUsage, acResult>>
detectorVars ==
  <<recentResponses, memoryReferenceCount, rotIndicatorCount, rotIndicators>>
callerVars == <<provider, pending, observed, asks>>
refinerVars == <<rfConfig, passHistory>>
attentionVars == <<weights, queryContext>>
\* what processQuery writes in its set-up and nowhere else
setupVars == <<passHistory, attentionVars>>
orchestratorVars ==
  <<cfg, subCallCount, finalAnswer, output, pc, fileCount, turn, turns,
    history, histBase, response, exec, lastCall, progress, result, thrown,
    view, callerVars, compressorVars, detectorVars, refinerVars, attentionVars>>
memoryVars == <<ctxConfig, memoryBank, lastOp, texts>>
contextVars == <<memoryVars, compressedHistory>>
parallelVars ==
  <<peConfig, queries, batch, tasks, inflight, results, errors, peState>>
\* what processQuery never writes
others ==
  <<ctxConfig, lastOp, texts, parallelVars, provider, asks, acConfig,
    maxContextTokens, acResult, rfConfig>>

vars == <<orchestratorVars, contextVars, parallelVars>>

\* ------------------------------------------------------- pure functions
\* Variant: the top tier compared with > instead of >=.
getMinSubLLMCallsExclusive(n) ==
  IF n > VERY_LARGE_files THEN VERY_LARGE_minCalls
  ELSE IF n >= LARGE_files THEN LARGE_minCalls
  ELSE IF n >= MEDIUM_files THEN MEDIUM_minCalls
  ELSE IF n >= SMALL_files THEN SMALL_minCalls
  ELSE DEFAULT_MIN

getMinSubLLMCalls(n) ==
  IF n >= VERY_LARGE_files THEN VERY_LARGE_minCalls
  ELSE IF n >= LARGE_files THEN LARGE_minCalls
  ELSE IF n >= MEDIUM_files THEN MEDIUM_minCalls
  ELSE IF n >= SMALL_files THEN SMALL_minCalls
  ELSE DEFAULT_MIN

\* resolveModelConfig: built-in defaults overridden by configuration
getDefaultModel(rootOpt) ==
  IF rootOpt # Null THEN rootOpt ELSE BUILTIN_DEFAULT_MODEL

getFallbackModel(fallbackOpt) ==
  IF fallbackOpt # Null THEN fallbackOpt ELSE BUILTIN_FALLBACK_MODEL

\* RLMOrchestrator constructor: this.config, this.fallbackModel
Constructor(rootOpt, fallbackOpt, maxTurnsOpt, maxSubCallsOpt) ==
  [rootModel     |-> IF rootOpt # Null THEN rootOpt
                     ELSE getDefaultModel(rootOpt),
   subModel      |-> getDefaultModel(rootOpt),
   fallbackModel |-> getFallbackModel(fallbackOpt),
   maxTurns      |-> IF maxTurnsOpt # 0 THEN maxTurnsOpt ELSE 10,
   maxSubCalls   |-> IF maxSubCallsOpt # 0 THEN maxSubCallsOpt
                     ELSE DefaultMaxSubCalls]

\* Variant: every provider error is taken for a 500.
IsServerErrorAlways(m) == TRUE

\* message.includes('500') || message.includes('Internal')
IsServerError(m) == m.has500 \/ m.hasInternal

\* Variant: the retry goes to the requested model again.
ModelsToTrySameModel(model, fallback) == <<model, model>>

\* modelsToTry of callConversation and callModel
ModelsToTry(model, fallback) ==
  IF model # fallback THEN <<model, fallback>> ELSE <<model>>

\* The for-loop over modelsToTry; outs[i] is the outcome of the i-th
\* generateContent call.  attempts: the calls made, in order.
RECURSIVE TryModels(_, _, _, _, _)
TryModels(models, outs, i, attempts, allFailed) ==
  IF i > Len(models)
  THEN [ok |-> FALSE, error |-> allFailed, attempts |-> attempts]
  ELSE LET a == [model |-> models[i], ok |-> outs[i][1],
                 message |-> ErrorMessage(<<outs[i][2], outs[i][3]>>)]
       IN IF a.ok
          THEN [ok |-> TRUE, error |-> Null, attempts |-> Append(attempts, a)]
          ELSE IF IsServerError(a.message)
          THEN TryModels(models, outs, i + 1, Append(attempts, a), allFailed)
          ELSE [ok |-> FALSE, error |-> "Gemini API error",
                attempts |-> Append(attempts, a)]

callConversation(outs) ==
  TryModels(ModelsToTry(cfg.rootModel, cfg.fallbackModel), outs, 1, <<>>,
            "All models failed")

callModel(model, outs) ==
  TryModels(ModelsToTry(model, cfg.fallbackModel), outs, 1, <<>>,
            "All models failed for sub-LLM call")

\* /^\s*FINAL\s*\([\s\S]*?\)\s*;?\s*$/ on the code: it starts with FINAL( and
\* its last statement ends with a closing parenthesis.
EndsWithParen(op) == op \in {"final", "query", "danger"}
IsFinalOnly(ops) ==
  Len(ops) > 0 /\ ops[1] = "final" /\ EndsWithParen(ops[Len(ops)])

\* validateSecurity(code).safe
validateSecurity(ops) == \A i \in 1..Len(ops) : ops[i] # "danger"

\* response.match(/FINAL\s*\(\s*["'`]([\s\S]*?)["'`]\s*\)/)
FinalMatch(r) ==
  IF r.hasCode THEN \E i \in 1..Len(r.ops) : r.ops[i] = "final"
  ELSE r.proseFinal

\* ---------------------------------------------------------- messages
Msg(role, kind, t, text, made, required, more) ==
  [role |-> role, kind |-> kind, turn |-> t, text |-> text,
   made |-> made, required |-> required, more |-> more]
ContextMsg == Msg("user", "context", 0, Null, 0, 0, 0)
ModelMsg(t) == Msg("model", "response", t, Null, 0, 0, 0)
ResultMsg(t) == Msg("user", "result", t, Null, 0, 0, 0)
ErrorMsg(t, e) == Msg("user", "error", t, e, 0, 0, 0)
NudgeMsg(t) == Msg("user", "nudge", t, Null, 0, 0, 0)
\* the memory injection pushed at lines 284-287
MemoryMsg(t) == Msg("user", "memory", t, Null, 0, 0, 0)
InsufficientMsg(t, made, required) ==
  Msg("user", "insufficient", t, Null, made, required, required - made)

\* reportProgress(turn, phase)
reportProgress(t, phase, count) ==
  [n |-> 1, turn |-> t, subCallCount |-> count, phase |-> phase]
\* a step that reports nothing
Silent == [progress EXCEPT !.n = 0]

NoExec == [ip |-> 0, buffer |-> <<>>, findings |-> <<>>, done |-> FALSE,
           success |-> FALSE, error |-> Null]
NoCall == [kind |-> Null, ok |-> FALSE, attempts |-> <<>>]
NoResult == [success |-> FALSE, answer |-> NoAnswer, turns |-> <<>>,
             subCallCount |-> 0, error |-> Null, partial |-> <<>>]
\* no ContextManager call made yet
NoOp == [op |-> Null, discarded |-> 0, maxDiscarded |-> 0]

\* ParallelExecutor constructor: { ...DEFAULT_PARALLEL_CONFIG, ...config }
ParallelExecutor(config) == Spread(DEFAULT_PARALLEL_CONFIG, config)

NoView == [length |-> 0, summary |-> FALSE, startIndex |-> 0]

\* ContextManager constructor: { ...DEFAULT_CONFIG, ...config }
ContextManager(config) == Spread(DEFAULT_CONFIG, config)

\* Variant: the window keeps slidingWindowSize messages instead of twice
\* as many.
buildOptimizedHistoryHalfWindow(n) ==
  LET w == ctxConfig.slidingWindowSize
      turnsToCompress == ((n - 2) \div 2) - w
  IN IF n <= w * 2 + 2
     THEN [length |-> n, summary |-> FALSE, startIndex |-> 1]
     ELSE [length |-> n,
           summary |-> turnsToCompress > 0 /\ Len(compressedHistory) > 0,
           startIndex |-> IF n - w > 1 THEN n - w ELSE 1]

\* ContextManager.buildOptimizedHistory on a full history of n messages:
\* the view holds message 0, then the compression summary if summary is
\* set, then the messages startIndex..n-1 (indices from 0).
buildOptimizedHistory(n) ==
  LET w == ctxConfig.slidingWindowSize
      turnsToCompress == ((n - 2) \div 2) - w
  IN IF n <= w * 2 + 2
     THEN [length |-> n, summary |-> FALSE, startIndex |-> 1]
     ELSE [length |-> n,
           summary |-> turnsToCompress > 0 /\ Len(compressedHistory) > 0,
           startIndex |-> IF n - w * 2 > 1 THEN n - w * 2 ELSE 1]

\* ------------------------------- ContextManager: memory bank functions
\* A MemoryEntry, reduced to the fields addToMemory looks at.  source Null
\* stands for undefined.
Entries ==
  [content : 1..MaxContent, source : {Null, "a.ts"},
   type : {"issue", "summary"}, importance : 1..MaxImportance]
\* The findings extractFindings(result, turn) returns: no source.
ExtractedEntries == {e \in Entries : e.source = Null}
\* The findings given to one addToMemory call.
FindingLists(E) == UNION {[1..n -> E] : n \in 0..MaxFindings}
\* config.maxMemoryEntries given to the ContextManager constructor
MemoryCapacities == {1, 2}

Range(seq) == {seq[i] : i \in 1..Len(seq)}

\* Variant: only the content is compared.
isDuplicateContentOnly(bank, finding) ==
  \E i \in 1..Len(bank) : bank[i].content = finding.content

\* addToMemory (619-623): this.memoryBank.some(...)
isDuplicate(bank, finding) ==
  \E i \in 1..Len(bank) :
    \/ bank[i].content = finding.content
    \/ (bank[i].source = finding.source /\ bank[i].type = finding.type)

\* addToMemory (618-628): the loop over the findings, from the i-th on
RECURSIVE pushFindings(_, _, _)
pushFindings(bank, findings, i) ==
  IF i > Len(findings) THEN bank
  ELSE pushFindings(IF isDuplicate(bank, findings[i]) THEN bank
                    ELSE Append(bank, findings[i]),
                    findings, i + 1)

\* Variant: ascending importance.
compareImportanceAscending(a, b) == a.importance - b.importance

\* (a, b) => b.importance - a.importance
compareImportance(a, b) == b.importance - a.importance

\* Array.prototype.sort with compareImportance: a stable sort.  insertSorted
\* puts e, which came after every element of sorted, in its place.
insertSorted(sorted, e) ==
  LET later == {i \in 1..Len(sorted) : compareImportance(e, sorted[i]) < 0}
      at == IF later = {} THEN Len(sorted) + 1
            ELSE CHOOSE i \in later : \A j \in later : i <= j
  IN SubSeq(sorted, 1, at - 1) \o <<e>> \o SubSeq(sorted, at, Len(sorted))

RECURSIVE sortByImportance(_)
sortByImportance(seq) ==
  IF seq = <<>> THEN <<>>
  ELSE insertSorted(sortByImportance(SubSeq(seq, 1, Len(seq) - 1)),
                    seq[Len(seq)])

\* Variant: the limit compared one entry too late.
overLimitLate(bank) == Len(bank) > ctxConfig.maxMemoryEntries + 1

\* addToMemory (631): this.memoryBank.length > this.config.maxMemoryEntries
overLimit(bank) == Len(bank) > ctxConfig.maxMemoryEntries

\* addToMemory (617-635): the bank afterwards and the entries sliced off
addToMemory(findings) ==
  LET pushed == pushFindings(memoryBank, findings, 1)
      sorted == sortByImportance(pushed)
  IN IF overLimit(pushed)
     THEN [bank |-> SubSeq(sorted, 1, ctxConfig.maxMemoryEntries),
           discarded |-> SubSeq(sorted, ctxConfig.maxMemoryEntries + 1,
                                Len(sorted))]
     ELSE [bank |-> pushed, discarded |-> <<>>]

\* What is kept of a ContextManager call: the method, how many entries it
\* sliced off the bank and the highest importance among them (0: none).
\* --------------------------------------- ContextRotDetector: functions
Max(a, b) == IF a >= b THEN a ELSE b
Min(a, b) == IF a <= b THEN a ELSE b

RECURSIVE questionCount(_)
\* questionPatterns.reduce((a, b) => a + b, 0) (399-402)
questionCount(responses) ==
  IF responses = <<>> THEN 0
  ELSE Head(responses).questions + questionCount(Tail(responses))

\* analyzeResponse 373-376: the response enters the rolling window
pushResponse(sig) ==
  LET pushed == Append(recentResponses, sig)
  IN IF Len(pushed) > maxHistory THEN Tail(pushed) ELSE pushed

\* Variant: the score counts every rot phrase seen since the last reset.
rotPatternScoreAccumulated(sig) == 20 * (rotIndicatorCount + sig.rot)

\* analyzeResponse 382-389: 20 for each rot pattern the response matches
rotPatternScore(sig) == 20 * sig.rot

\* analyzeResponse 398-407: more than 3 '?' per response on average over a
\* window of at least 3 responses
highQuestionFrequency(window) ==
  Len(window) >= 3 /\ questionCount(window) > 3 * Len(window)

\* analyzeResponse 424-431
recommend(confidence) ==
  IF confidence >= 60 THEN "restart"
  ELSE IF confidence >= 40 THEN "summarize"
  ELSE IF confidence >= 20 THEN "inject_memory"
  ELSE "none"

\* ContextRotDetector.analyzeResponse (372-438): the detector's fields
\* after the call and the ContextRotIndicators returned.
analyzeResponse(sig) ==
  LET window == pushResponse(sig)
      asking == highQuestionFrequency(window)
      rotScore == rotPatternScore(sig) + (IF asking THEN 15 ELSE 0)
                    + (IF sig.bare THEN 10 ELSE 0)
      retentionScore == 15 * sig.retention
      netScore == Max(0, rotScore - retentionScore)
      confidence == Min(100, netScore)
  IN [recentResponses |-> window,
      rotIndicatorCount |-> rotIndicatorCount + sig.rot,
      memoryReferenceCount |-> memoryReferenceCount + sig.retention,
      returned |->
        [detected |-> confidence >= 20,
         confidence |-> confidence,
         indicators |-> sig.rot + (IF asking THEN 1 ELSE 0)
                          + (IF sig.bare THEN 1 ELSE 0),
         recommendation |-> recommend(confidence)]]

\* ------------------------------------------------ history text size
\* Every message of the history is taken to be this many characters long.
MessageChars == 400

\* Variant: the estimate is made of the optimized history given to the
\* provider instead of the full history.
estimateTokensOfView(chars) ==
  LET sent == 1 + (IF view.summary THEN 1 ELSE 0)
                + (view.length - view.startIndex)
      seen == IF chars < sent * MessageChars THEN chars
              ELSE sent * MessageChars
  IN (seen + 3) \div 4

\* AdaptiveCompressor.estimateTokens (part_013 316-319): Math.ceil(length/4)
estimateTokens(chars) == (chars + 3) \div 4

\* ContextManager.extractFindings (526-563), on the finding lines of an
\* execution result: at most 5 findings are returned.
extractFindings(lines) == SubSeq(lines, 1, Min(5, Len(lines)))

\* ------------------------------------------------------------- Init
\* A constructed orchestrator on which processQuery has not been called.
Idle ==
  /\ subCallCount = 0
  /\ finalAnswer = NoAnswer
  /\ output = <<>>
  /\ pc = "idle"
  /\ fileCount = 0
  /\ turn = 0
  /\ turns = <<>>
  /\ history = <<>>
  /\ histBase = 0
  /\ response = NoResponse
  /\ exec = NoExec
  /\ lastCall = NoCall
  /\ progress = [n |-> 0, turn |-> 0, subCallCount |-> 0, phase |-> Null]
  /\ result = NoResult
  /\ thrown = Null
  /\ view = NoView
  /\ compressedHistory = <<>>

\* no analyzeResponse call made yet
NoIndicators ==
  [detected |-> FALSE, confidence |-> 0, indicators |-> 0,
   recommendation |-> "none"]
\* no compressor call made yet
NoMeasure ==
  [op |-> Null, usage |-> 0, base |-> 0, level |-> Null, value |-> 0]

\* AdaptiveCompressor constructor (194-200)
AdaptiveCompressor(config) == Spread(DEFAULT_ADAPTIVE_CONFIG, config)

\* IterativeRefiner constructor (714-716)
IterativeRefiner(config) == Spread(DEFAULT_REFINEMENT_CONFIG, config)

\* The IterativeRefiner and the SelectiveAttention the orchestrator
\* constructs (part_006 141-142)
RefinementIdle ==
  /\ rfConfig = IterativeRefiner(NoConfig)
  /\ passHistory = <<>>
  /\ weights = DEFAULT_ATTENTION_WEIGHTS
  /\ queryContext = PlainQuery

\* The AdaptiveCompressor and the ContextRotDetector the orchestrator
\* constructs (part_006 135-139), and no compressResult call made.
AdvancedIdle ==
  /\ RefinementIdle
  /\ acConfig = AdaptiveCompressor(NoConfig)
  /\ maxContextTokens = DefaultMaxContextTokens
  /\ currentUsage = 0
  /\ acResult = NoMeasure
  /\ recentResponses = <<>>
  /\ memoryReferenceCount = 0
  /\ rotIndicatorCount = 0
  /\ rotIndicators = NoIndicators
  /\ observed = <<>>
  /\ texts = <<>>

\* The provider answers with the responses of this model, which hold
\* nothing the rot detector or extractFindings reacts to.
PlainProvider == [responses |-> Responses, answers |-> {<<>>}]

\* The provider given to the orchestrator, the queries its caller may ask
\* and the number of processQuery calls the caller makes.
CallerAsking(p, qs, n) ==
  /\ provider = p
  /\ asks = qs
  /\ pending = n

\* A caller whose queries hold no word adjustWeightsForQuery looks for.
Caller(p, n) == CallerAsking(p, {PlainQuery}, n)

\* A constructed ContextManager with the default configuration.
ContextManagerDefault ==
  /\ ctxConfig = ContextManager(NoConfig)
  /\ memoryBank = <<>>
  /\ lastOp = NoOp

\* A constructed ParallelExecutor on which executeBatch has not been called.
ParallelExecutorIdle ==
  /\ queries = 0
  /\ batch = 0
  /\ tasks = <<>>
  /\ inflight = {}
  /\ results = EmptyMap
  /\ errors = EmptyMap
  /\ peState = [status |-> "idle", error |-> 0]

Init ==
  /\ \E r \in RootModelOptions, f \in FallbackOptions,
        mt \in 1..MaxTurns, ms \in MaxSubCallsOptions :
       cfg = Constructor(r, f, mt, ms)
  /\ Idle
  /\ AdvancedIdle
  /\ Caller(PlainProvider, 1)
  /\ ContextManagerDefault
  /\ peConfig = ParallelExecutor(NoConfig)
  /\ ParallelExecutorIdle

\* SelectiveAttention.adjustWeightsForQuery (540-562): the three tests are
\* made in this order, each assigning to this.weights as it stands.
adjustWeightsForQuery(query) ==
  LET secured == IF query.security
                 THEN [weights EXCEPT !.issues = 20, !.patterns = 8]
                 ELSE weights
      designed == IF query.architecture
                  THEN [secured EXCEPT !.patterns = 20, !.fileAnalysis = 12]
                  ELSE secured
  IN IF query.dependency
     THEN [designed EXCEPT !.dependencies = 20]
     ELSE designed

\* ------------------------------------------------ processQuery: set-up
\* Lines 154-230: a processQuery call on the orchestrator, the first or a
\* later one: initial progress report, executor.initialize, callbacks,
\* contextManager.reset(), contextRotDetector.reset(),
\* iterativeRefiner.reset(), selectiveAttention.setQueryContext(query) and
\* adjustWeightsForQuery(query),
\* initial history.
\* The executor's counters and the compressor's usage are left as they
\* are: neither executor.reset() nor updateUsage is called here.
ProcessQuery ==
  /\ pc \in {"idle", "done", "thrown"}
  /\ pending > 0
  /\ pending' = pending - 1
  /\ \E n \in FileCounts : fileCount' = n
  /\ progress' = reportProgress(0, "initializing", subCallCount)
  /\ turns' = <<>>
  /\ observed' = <<>>
  /\ memoryBank' = <<>>
  /\ compressedHistory' = <<>>
  /\ recentResponses' = <<>>
  /\ memoryReferenceCount' = 0
  /\ rotIndicatorCount' = 0
  /\ rotIndicators' = NoIndicators
  /\ passHistory' = <<>>
  /\ \E query \in asks :
       /\ queryContext' = query
       /\ weights' = adjustWeightsForQuery(query)
  /\ history' = <<ContextMsg>>
  /\ histBase' = 0
  /\ turn' = 1
  /\ pc' = "loop"
  /\ lastCall' = NoCall
  /\ response' = NoResponse
  /\ exec' = NoExec
  /\ result' = NoResult
  /\ thrown' = Null
  /\ view' = NoView
  /\ UNCHANGED <<others, currentUsage, cfg, subCallCount, finalAnswer, output>>

\* Variant: a failure result that drops the recorded turns.
FailureWithoutTurns(err, partial) ==
  [success |-> FALSE, answer |-> NoAnswer, turns |-> <<>>,
   subCallCount |-> subCallCount, error |-> err, partial |-> partial]

Failure(err, partial) ==
  [success |-> FALSE, answer |-> NoAnswer, turns |-> turns,
   subCallCount |-> subCallCount, error |-> err, partial |-> partial]

Success(answer) ==
  [success |-> TRUE, answer |-> answer, turns |-> turns,
   subCallCount |-> subCallCount, error |-> Null, partial |-> <<>>]

\* Variant: the loop runs one turn too many.
LoopContinuesOneMore == turn <= cfg.maxTurns + 1

\* Line 233: the loop condition turn <= this.config.maxTurns
LoopContinues == turn <= cfg.maxTurns

\* Lines 233-245: Date.now() - startTime > timeoutMs at the top of a turn.
Timeout ==
  /\ pc = "loop"
  /\ LoopContinues
  /\ result' = Failure("Timeout exceeded", <<>>)
  /\ pc' = "done"
  /\ progress' = Silent
  /\ lastCall' = NoCall
  /\ UNCHANGED <<others, setupVars, pending, memoryBank, observed,
                 currentUsage, detectorVars, view, compressedHistory, cfg,
                 histBase, subCallCount, finalAnswer, output, fileCount, turn,
                 turns, history, response, exec, thrown>>

\* Lines 233-257: the deadline has not passed; the turn starts.  When
\* buildOptimizedHistory adds the compression summary,
\* buildCompressionSummary (736-738) sorts the memory bank in place.
BeginTurn ==
  /\ pc = "loop"
  /\ LoopContinues
  /\ progress' = reportProgress(turn, "analyzing", subCallCount)
  /\ pc' = "call"
  /\ lastCall' = NoCall
  /\ IF turn = 1
     THEN UNCHANGED <<history, histBase>>
     ELSE /\ histBase' = histBase + Len(history)
          /\ history' = <<>>
  /\ LET optimizedHistory == buildOptimizedHistory(histBase + Len(history))
     IN /\ view' = optimizedHistory
        /\ memoryBank' = IF optimizedHistory.summary
                         THEN sortByImportance(memoryBank)
                         ELSE memoryBank
  /\ UNCHANGED <<others, setupVars, pending, observed, currentUsage,
                 detectorVars, compressedHistory, cfg, subCallCount,
                 finalAnswer, output, fileCount, turn, turns, response, exec,
                 result, thrown>>

\* Lines 450-459: the loop ran out of turns.
MaxTurnsExceeded ==
  /\ pc = "loop"
  /\ ~LoopContinues
  /\ result' = Failure("Max turns exceeded", output)
  /\ pc' = "done"
  /\ progress' = Silent
  /\ lastCall' = NoCall
  /\ UNCHANGED <<others, setupVars, pending, memoryBank, observed,
                 currentUsage, detectorVars, view, compressedHistory, cfg,
                 histBase, subCallCount, finalAnswer, output, fileCount, turn,
                 turns, history, response, exec, thrown>>

\* Variant: every recommendation other than none is acted on.
actsOnAnyDetected(recommendation) == recommendation # "none"

\* Lines 276-277: the recommendations the orchestrator acts on
actsOn(recommendation) == recommendation \in {"inject_memory", "summarize"}

\* Lines 264-301 with callConversation (465-511): the root model generates
\* the turn's response, or the call throws and processQuery rejects.  The
\* response goes to the rot detector (enableContextRotDetection is true);
\* on inject_memory or summarize with a memory bank that is not empty the
\* memory injection is pushed to history; then the compressor is given the
\* token estimate of the whole history.
CallConversation ==
  /\ pc = "call"
  /\ \E outs \in [1..2 -> Outcomes], r \in provider.responses :
       LET c == callConversation(outs)
           rot == analyzeResponse(r.signals)
           pushed == IF actsOn(rot.returned.recommendation)
                        /\ memoryBank # <<>>
                     THEN Append(history, MemoryMsg(turn))
                     ELSE history
       IN
       /\ lastCall' = [kind |-> "root", ok |-> c.ok, attempts |-> c.attempts]
       /\ IF c.ok
          THEN /\ response' = r
               /\ pc' = "respond"
               /\ thrown' = thrown
               /\ recentResponses' = rot.recentResponses
               /\ rotIndicatorCount' = rot.rotIndicatorCount
               /\ memoryReferenceCount' = rot.memoryReferenceCount
               /\ rotIndicators' = rot.returned
               /\ history' = pushed
               /\ currentUsage' =
                    estimateTokens((histBase + Len(pushed)) * MessageChars)
          ELSE /\ response' = response
               /\ pc' = "thrown"
               /\ thrown' = c.error
               /\ UNCHANGED <<history, currentUsage, detectorVars>>
  /\ progress' = Silent
  /\ UNCHANGED <<others, setupVars, pending, memoryBank, observed, view,
                 compressedHistory, cfg, histBase, subCallCount, finalAnswer,
                 output, fileCount, turn, turns, exec, result>>

\* ContextManager.compressTurn, reduced to the fields the summary shows.
compressTurn(t, hadCode, hadError) ==
  [turn |-> t, hadCode |-> hadCode, hadError |-> hadError]

\* Variant: a turn that failed is not registered.
registerTurnUnlessFailed(failed) ==
  IF failed THEN compressedHistory
  ELSE Append(compressedHistory, compressTurn(turn, response.hasCode, failed))

\* Lines 363-366 with ContextManager.registerTurn (759-768): the
\* compressed turn is stored.
registerTurn(failed) ==
  Append(compressedHistory, compressTurn(turn, response.hasCode, failed))

\* ContextManager.registerTurn (770-773): the findings of an execution
\* result that is not empty go to the memory bank; executionResult is set
\* only when the execution succeeded (317-319).
rememberFindings(success) ==
  IF success /\ exec.buffer # <<>>
  THEN addToMemory(extractFindings(exec.findings)).bank
  ELSE memoryBank

\* Lines 368-370: onTurnComplete(turnRecord)
onTurnComplete == Append(observed, turn)

\* Lines 351-361: the turn record; error: whether turnRecord.error is set.
TurnRecord(failed) ==
  [turn |-> turn, code |-> response.hasCode, error |-> failed,
   subCallCount |-> subCallCount]

\* Lines 340-370: no code block; the response and a nudge go to history and
\* the turn is recorded.
NoCode ==
  /\ pc = "respond"
  /\ ~response.hasCode
  /\ history' = history \o <<ModelMsg(turn), NudgeMsg(turn)>>
  /\ turns' = Append(turns, TurnRecord(FALSE))
  /\ compressedHistory' = registerTurn(FALSE)
  /\ observed' = onTurnComplete
  /\ exec' = NoExec
  /\ pc' = "check"
  /\ progress' = Silent
  /\ lastCall' = NoCall
  /\ UNCHANGED <<others, setupVars, pending, memoryBank, currentUsage,
                 detectorVars, view, cfg, histBase, subCallCount, finalAnswer,
                 output, fileCount, turn, response, result, thrown>>

\* ------------------------------------------------ RLMExecutor.execute
\* Lines 335-337: the user message that reports the execution.
ExecutionMsg(success, err) ==
  IF success THEN ResultMsg(turn) ELSE ErrorMsg(turn, err)

\* execute returns {success, output, error} (758-775); then lines 317-370:
\* executionResult / executionError, the progress report, the two history
\* entries and the turn record.  count: the delegated-call count by then;
\* reported: the progress reports the step made before this one.
AfterExecute(success, err, count, reported) ==
  /\ exec' = [exec EXCEPT !.done = TRUE, !.success = success, !.error = err]
  /\ progress' = [reportProgress(turn, "analyzing", count)
                    EXCEPT !.n = reported + 1]
  /\ history' = history \o <<ModelMsg(turn), ExecutionMsg(success, err)>>
  /\ turns' = Append(turns,
       [TurnRecord(~success) EXCEPT !.subCallCount = count])
  /\ compressedHistory' = registerTurn(~success)
  /\ memoryBank' = rememberFindings(success)
  /\ observed' = onTurnComplete
  /\ pc' = "check"

\* Lines 308-316 and execute (747-764): the executing report, extractCode,
\* the finalize-only test and the security validation.
Rejected(ops) == ~IsFinalOnly(ops) /\ ~validateSecurity(ops)

ExecuteRejected ==
  /\ pc = "respond"
  /\ response.hasCode
  /\ Rejected(response.ops)
  /\ AfterExecute(FALSE, "Security violation", subCallCount, 1)
  /\ lastCall' = NoCall
  /\ UNCHANGED <<others, setupVars, pending, currentUsage, detectorVars, view,
                 cfg, histBase, subCallCount, finalAnswer, output, fileCount,
                 turn, response, result, thrown>>

Execute ==
  /\ pc = "respond"
  /\ response.hasCode
  /\ ~Rejected(response.ops)
  /\ progress' = reportProgress(turn, "executing", subCallCount)
  /\ exec' = [ip |-> 1, buffer |-> <<>>, findings |-> <<>>, done |-> FALSE,
              success |-> FALSE, error |-> Null]
  /\ pc' = "sandbox"
  /\ lastCall' = NoCall
  /\ UNCHANGED <<others, setupVars, pending, memoryBank, observed,
                 currentUsage, detectorVars, view, compressedHistory, cfg,
                 histBase, subCallCount, finalAnswer, output, fileCount, turn,
                 turns, history, response, result, thrown>>

AtOp(op) ==
  /\ pc = "sandbox"
  /\ exec.ip <= Len(response.ops)
  /\ response.ops[exec.ip] = op

\* Variant: the ceiling compared with > instead of >=.
CeilingReachedLate == subCallCount > cfg.maxSubCalls

\* _llmQuery (926): this.subCallCount >= this.maxSubCalls
CeilingReached == subCallCount >= cfg.maxSubCalls

\* _llmQuery (925-928): the ceiling is reached, the call raises; execute
\* catches the error (769-775).
LlmQueryRefused ==
  /\ AtOp("query")
  /\ CeilingReached
  /\ AfterExecute(FALSE, "Maximum sub-LLM calls exceeded", subCallCount, 0)
  /\ lastCall' = NoCall
  /\ UNCHANGED <<others, setupVars, pending, currentUsage, detectorVars, view,
                 cfg, histBase, subCallCount, finalAnswer, output, fileCount,
                 turn, response, result, thrown>>

\* _llmQuery (925-938), the sub-LLM callback (194-218) with callModel
\* (516-553), then _print (916-923) of the returned text, of which the
\* model keeps the lines extractFindings takes for findings; an error of
\* callModel is raised into the script and caught by execute (769-775).
LlmQuery ==
  /\ AtOp("query")
  /\ ~CeilingReached
  /\ subCallCount' = subCallCount + 1
  /\ \E outs \in [1..2 -> Outcomes], answer \in provider.answers :
       LET c == callModel(cfg.subModel, outs) IN
       /\ lastCall' = [kind |-> "sub", ok |-> c.ok, attempts |-> c.attempts]
       /\ IF c.ok
          THEN /\ output' = Append(output, subCallCount + 1)
               /\ exec' = [exec EXCEPT !.ip = @ + 1,
                                       !.buffer = Append(@, subCallCount + 1),
                                       !.findings = @ \o answer]
               /\ progress' = [n |-> 2, turn |-> Len(turns),
                               subCallCount |-> subCallCount + 1,
                               phase |-> "sub-llm"]
               /\ UNCHANGED <<pc, history, turns, compressedHistory,
                              memoryBank, observed>>
          ELSE /\ output' = output
               /\ AfterExecute(FALSE, c.error, subCallCount + 1, 2)
  /\ UNCHANGED <<others, setupVars, pending, currentUsage, detectorVars, view,
                 cfg, histBase, finalAnswer, fileCount, turn, response,
                 result, thrown>>

\* _setFinal / FINAL (940-951)
SetFinal ==
  /\ AtOp("final")
  /\ finalAnswer' = turn
  /\ exec' = [exec EXCEPT !.ip = @ + 1]
  /\ progress' = Silent
  /\ lastCall' = NoCall
  /\ UNCHANGED <<others, setupVars, pending, memoryBank, observed,
                 currentUsage, detectorVars, view, compressedHistory, cfg,
                 histBase, subCallCount, output, pc, fileCount, turn, turns,
                 history, response, result, thrown>>

\* execute (769-775): an error raised by the script is caught.
ScriptThrows ==
  /\ AtOp("throw")
  /\ AfterExecute(FALSE, "ReferenceError", subCallCount, 0)
  /\ lastCall' = NoCall
  /\ UNCHANGED <<others, setupVars, pending, currentUsage, detectorVars, view,
                 cfg, histBase, subCallCount, finalAnswer, output, fileCount,
                 turn, response, result, thrown>>

\* A deny-listed statement that reached the sandbox runs: it either goes
\* through (fetch, process) or raises (require is not defined).
DangerRuns ==
  /\ AtOp("danger")
  /\ \/ /\ exec' = [exec EXCEPT !.ip = @ + 1]
        /\ progress' = Silent
        /\ UNCHANGED <<pc, history, turns, compressedHistory, memoryBank,
                       observed>>
     \/ AfterExecute(FALSE, "ReferenceError", subCallCount, 0)
  /\ lastCall' = NoCall
  /\ UNCHANGED <<others, setupVars, pending, currentUsage, detectorVars, view,
                 cfg, histBase, subCallCount, finalAnswer, output, fileCount,
                 turn, response, result, thrown>>

\* execute (767-768): the script ran to its end.
ScriptEnds ==
  /\ pc = "sandbox"
  /\ exec.ip > Len(response.ops)
  /\ AfterExecute(TRUE, Null, subCallCount, 0)
  /\ lastCall' = NoCall
  /\ UNCHANGED <<others, setupVars, pending, currentUsage, detectorVars, view,
                 cfg, histBase, subCallCount, finalAnswer, output, fileCount,
                 turn, response, result, thrown>>

\* ------------------------------------------ lines 372-447: finalize gate
minSubCalls == getMinSubLLMCalls(fileCount)
needsMoreSubCalls == subCallCount < minSubCalls

NextTurn ==
  /\ turn' = turn + 1
  /\ response' = NoResponse
  /\ exec' = NoExec
  /\ pc' = "loop"
  /\ progress' = Silent
  /\ lastCall' = NoCall

Return(r) ==
  /\ result' = r
  /\ response' = NoResponse
  /\ exec' = NoExec
  /\ pc' = "done"
  /\ progress' = Silent
  /\ lastCall' = NoCall

\* Variant: the rejection leaves the finalize slot as it is.
RejectSlotKeepsValue ==
  /\ pc = "check"
  /\ finalAnswer # NoAnswer
  /\ needsMoreSubCalls
  /\ history' = history \o
       <<ModelMsg(turn), InsufficientMsg(turn, subCallCount, minSubCalls)>>
  /\ NextTurn
  /\ UNCHANGED <<others, setupVars, pending, memoryBank, observed,
                 currentUsage, detectorVars, view, compressedHistory, cfg,
                 histBase, subCallCount, finalAnswer, output, fileCount,
                 turns, result, thrown>>

\* Variant: the rejection calls executor.reset() instead of
\* clearFinalAnswer().
RejectSlotResets ==
  /\ pc = "check"
  /\ finalAnswer # NoAnswer
  /\ needsMoreSubCalls
  /\ finalAnswer' = NoAnswer
  /\ subCallCount' = 0
  /\ output' = <<>>
  /\ history' = history \o
       <<ModelMsg(turn), InsufficientMsg(turn, subCallCount, minSubCalls)>>
  /\ NextTurn
  /\ UNCHANGED <<others, setupVars, pending, memoryBank, observed,
                 currentUsage, detectorVars, view, compressedHistory, cfg,
                 histBase, fileCount, turns, result, thrown>>

\* Lines 378-409
RejectSlot ==
  /\ pc = "check"
  /\ finalAnswer # NoAnswer
  /\ needsMoreSubCalls
  /\ finalAnswer' = NoAnswer
  /\ history' = history \o
       <<ModelMsg(turn), InsufficientMsg(turn, subCallCount, minSubCalls)>>
  /\ NextTurn
  /\ UNCHANGED <<others, setupVars, pending, memoryBank, observed,
                 currentUsage, detectorVars, view, compressedHistory, cfg,
                 histBase, subCallCount, output, fileCount, turns, result,
                 thrown>>

\* Lines 378, 410-417
AcceptSlot ==
  /\ pc = "check"
  /\ finalAnswer # NoAnswer
  /\ ~needsMoreSubCalls
  /\ Return(Success(finalAnswer))
  /\ UNCHANGED <<others, setupVars, pending, memoryBank, observed,
                 currentUsage, detectorVars, view, compressedHistory, cfg,
                 histBase, subCallCount, finalAnswer, output, fileCount, turn,
                 turns, history, thrown>>

\* Lines 421-438
RejectText ==
  /\ pc = "check"
  /\ finalAnswer = NoAnswer
  /\ FinalMatch(response)
  /\ needsMoreSubCalls
  /\ history' = history \o
       <<ModelMsg(turn), InsufficientMsg(turn, subCallCount, minSubCalls)>>
  /\ NextTurn
  /\ UNCHANGED <<others, setupVars, pending, memoryBank, observed,
                 currentUsage, detectorVars, view, compressedHistory, cfg,
                 histBase, subCallCount, finalAnswer, output, fileCount,
                 turns, result, thrown>>

\* Lines 421-422, 439-446
AcceptText ==
  /\ pc = "check"
  /\ finalAnswer = NoAnswer
  /\ FinalMatch(response)
  /\ ~needsMoreSubCalls
  /\ Return(Success(turn))
  /\ UNCHANGED <<others, setupVars, pending, memoryBank, observed,
                 currentUsage, detectorVars, view, compressedHistory, cfg,
                 histBase, subCallCount, finalAnswer, output, fileCount, turn,
                 turns, history, thrown>>

\* Line 448: no finalize value, the loop goes on.
NoFinal ==
  /\ pc = "check"
  /\ finalAnswer = NoAnswer
  /\ ~FinalMatch(response)
  /\ NextTurn
  /\ UNCHANGED <<others, setupVars, pending, memoryBank, observed,
                 currentUsage, detectorVars, view, compressedHistory, cfg,
                 histBase, subCallCount, finalAnswer, output, fileCount,
                 turns, history, result, thrown>>

Next ==
  \/ ProcessQuery
  \/ Timeout
  \/ BeginTurn
  \/ MaxTurnsExceeded
  \/ CallConversation
  \/ NoCode
  \/ ExecuteRejected
  \/ Execute
  \/ LlmQueryRefused
  \/ LlmQuery
  \/ SetFinal
  \/ ScriptThrows
  \/ DangerRuns
  \/ ScriptEnds
  \/ RejectSlot
  \/ AcceptSlot
  \/ RejectText
  \/ AcceptText
  \/ NoFinal

Spec == Init /\ [][Next]_vars

\* ------------------------------------- several queries, one orchestrator
\* An orchestrator constructed with maxTurns 1 and maxSubCalls 2, on which
\* processQuery is called MaxCalls times, each call after the one before
\* has returned or rejected.
InitSessions ==
  /\ cfg = Constructor(Null, Null, 1, 2)
  /\ Idle
  /\ AdvancedIdle
  /\ Caller(PlainProvider, MaxCalls)
  /\ ContextManagerDefault
  /\ peConfig = ParallelExecutor(NoConfig)
  /\ ParallelExecutorIdle

SpecSessions == InitSessions /\ [][Next]_vars

\* ------------------------------------- a provider that loses the thread
\* What the rot detector finds in a response of this provider: nothing,
\* "can you remind me" (confidence 20), two rot phrases (40), three (60).
ProviderSignals ==
  {Quiet, Signals(1, 0, 0, FALSE), Signals(2, 0, 0, FALSE),
   Signals(3, 0, 0, FALSE)}

Finding(content, type, importance) ==
  [content |-> content, source |-> Null, type |-> type,
   importance |-> importance]

\* The finding lines a delegated answer of this provider holds.
ProviderAnswers ==
  {<<>>, <<Finding(1, "issue", 1)>>, <<Finding(2, "issue", 2)>>,
   <<Finding(2, "summary", 1)>>}

ForgetfulProvider ==
  [responses |-> {[r EXCEPT !.signals = sig] :
                    r \in Responses, sig \in ProviderSignals},
   answers |-> ProviderAnswers]

\* An orchestrator constructed with maxTurns 2 and maxSubCalls 2, given a
\* provider whose responses show context rot and whose delegated answers
\* hold findings; processQuery is called once.
InitRot ==
  /\ cfg = Constructor(Null, Null, 2, 2)
  /\ Idle
  /\ AdvancedIdle
  /\ Caller(ForgetfulProvider, 1)
  /\ ContextManagerDefault
  /\ peConfig = ParallelExecutor(NoConfig)
  /\ ParallelExecutorIdle

SpecRot == InitRot /\ [][Next]_vars

\* ------------------------------------- a provider whose answers report
\* MemoryEntry['type'] (types.ts 405)
MemoryTypes == {"file_analysis", "pattern", "dependency", "issue", "summary"}

\* The responses of this provider: without code block, with or without a
\* FINAL("...") in the text, or one of these scripts; each with any of
\* ProviderSignals.
ReportingScripts ==
  {<<"query">>, <<"query", "query">>, <<"final">>, <<"throw">>,
   <<"danger">>, <<"final", "danger">>}

\* The finding lines its delegated answers hold: one line of each of three
\* types; an issue and a summary; a more important issue; none.
ReportingAnswers ==
  {<<Finding(1, "file_analysis", 1), Finding(2, "pattern", 1),
     Finding(3, "dependency", 1)>>,
   <<Finding(4, "issue", 1), Finding(5, "summary", 1)>>,
   <<Finding(6, "issue", 2)>>,
   <<>>}

ReportingProvider ==
  [responses |->
     {[r EXCEPT !.signals = sig] :
        r \in {x \in Responses : ~x.hasCode \/ x.ops \in ReportingScripts},
        sig \in ProviderSignals},
   answers |-> ReportingAnswers]

\* An orchestrator constructed with maxTurns 2 and maxSubCalls 3, given
\* that provider; processQuery is called once.
InitFindings ==
  /\ cfg = Constructor(Null, Null, 2, 3)
  /\ Idle
  /\ AdvancedIdle
  /\ Caller(ReportingProvider, 1)
  /\ ContextManagerDefault
  /\ peConfig = ParallelExecutor(NoConfig)
  /\ ParallelExecutorIdle

SpecFindings == InitFindings /\ [][Next]_vars

\* ------------------------------------- queries of several vocabularies
\* The queries the caller gives to processQuery.
QueryTexts ==
  {Query(s, a, d) : s \in BOOLEAN, a \in BOOLEAN, d \in BOOLEAN}

\* An orchestrator constructed with maxTurns 1 and maxSubCalls 2, on which
\* processQuery is called MaxCalls times with any of these queries.
InitAttention ==
  /\ cfg = Constructor(Null, Null, 1, 2)
  /\ Idle
  /\ AdvancedIdle
  /\ CallerAsking(PlainProvider, QueryTexts, MaxCalls)
  /\ ContextManagerDefault
  /\ peConfig = ParallelExecutor(NoConfig)
  /\ ParallelExecutorIdle

SpecAttention == InitAttention /\ [][Next]_vars

\* ------------------------------------- a token ceiling within reach
\* advancedConfig.maxContextTokens given to the orchestrator's constructor:
\* ten messages of the history fill it
SmallMaxContextTokens == 1000

\* An orchestrator constructed with maxTurns 3, maxSubCalls 2 and that
\* token ceiling (part_006 136-139); processQuery is called once.
InitUsage ==
  /\ cfg = Constructor(Null, Null, 3, 2)
  /\ Idle
  /\ RefinementIdle
  /\ acConfig = AdaptiveCompressor(NoConfig)
  /\ maxContextTokens = SmallMaxContextTokens
  /\ currentUsage = 0
  /\ acResult = NoMeasure
  /\ recentResponses = <<>>
  /\ memoryReferenceCount = 0
  /\ rotIndicatorCount = 0
  /\ rotIndicators = NoIndicators
  /\ observed = <<>>
  /\ texts = <<>>
  /\ Caller(PlainProvider, 1)
  /\ ContextManagerDefault
  /\ peConfig = ParallelExecutor(NoConfig)
  /\ ParallelExecutorIdle

SpecUsage == InitUsage /\ [][Next]_vars

\* ------------------------------------------- observers that raise
\* onProgress and onTurnComplete are called without a try/catch.
ObserverError == "observer error"

\* reportProgress (158-167) at lines 169, 252 and 310: the error raised by
\* onProgress leaves processQuery, which rejects with it.
ProgressObserverRaises ==
  /\ \/ pc = "idle"
     \/ pc = "loop" /\ LoopContinues
     \/ pc = "respond" /\ response.hasCode /\ ~Rejected(response.ops)
  /\ pc' = "thrown"
  /\ thrown' = ObserverError
  /\ progress' = [n |-> 1, turn |-> turn, subCallCount |-> subCallCount,
                  phase |-> Null]
  /\ lastCall' = NoCall
  /\ UNCHANGED <<others, setupVars, pending, memoryBank, observed,
                 currentUsage, detectorVars, view, compressedHistory, cfg,
                 histBase, subCallCount, finalAnswer, output, fileCount, turn,
                 turns, history, response, exec, result>>

\* _llmQuery (932-936): the count is incremented, then onSubLLMCall (175-184)
\* calls onProgress, whose error is raised into the script before the
\* provider is called; execute catches it (769-775).
SubCallObserverRaises ==
  /\ AtOp("query")
  /\ ~CeilingReached
  /\ subCallCount' = subCallCount + 1
  /\ AfterExecute(FALSE, ObserverError, subCallCount + 1, 1)
  /\ lastCall' = NoCall
  /\ UNCHANGED <<others, setupVars, pending, currentUsage, detectorVars, view,
                 cfg, histBase, finalAnswer, output, fileCount, turn,
                 response, result, thrown>>

\* Lines 368-370: the error raised by onTurnComplete leaves processQuery
\* after the turn was recorded and before the termination check.
TurnObserverRaises ==
  /\ pc = "check"
  /\ pc' = "thrown"
  /\ thrown' = ObserverError
  /\ progress' = Silent
  /\ lastCall' = NoCall
  /\ UNCHANGED <<others, setupVars, pending, memoryBank, observed,
                 currentUsage, detectorVars, view, compressedHistory, cfg,
                 histBase, subCallCount, finalAnswer, output, fileCount, turn,
                 turns, history, response, exec, result>>

\* processQuery called with observers that may raise.
NextObservers ==
  \/ Next
  \/ ProgressObserverRaises
  \/ SubCallObserverRaises
  \/ TurnObserverRaises

SpecObservers == Init /\ [][NextObservers]_vars

\* ------------------------------------------- ContextManager: memory bank
Called(op, discarded) ==
  [op |-> op,
   discarded |-> Len(discarded),
   maxDiscarded |->
     IF discarded = <<>> THEN 0
     ELSE CHOOSE m \in {discarded[i].importance : i \in 1..Len(discarded)} :
            \A i \in 1..Len(discarded) : discarded[i].importance <= m]

\* A ContextManager constructed with a capacity, the rest of the program
\* left as constructed.
InitMemory ==
  /\ cfg = Constructor(Null, Null, 0, 0)
  /\ Idle
  /\ AdvancedIdle
  /\ Caller(PlainProvider, 0)
  /\ \E c \in MemoryCapacities :
       ctxConfig = ContextManager([maxMemoryEntries |-> c])
  /\ memoryBank = <<>>
  /\ lastOp = NoOp
  /\ peConfig = ParallelExecutor(NoConfig)
  /\ ParallelExecutorIdle

\* contextManager.addToMemory(findings)
AddToMemory ==
  /\ \E findings \in FindingLists(Entries) :
       LET r == addToMemory(findings) IN
       /\ memoryBank' = r.bank
       /\ lastOp' = Called("addToMemory", r.discarded)
  /\ UNCHANGED <<orchestratorVars, parallelVars, ctxConfig, compressedHistory,
                 texts>>

\* contextManager.registerTurn(turn, response, executionResult, error)
\* (759-774): the compressed turn is stored and the findings extracted from
\* the execution result (none when it is null) go to addToMemory.
RegisterTurn ==
  /\ Len(compressedHistory) < MaxTurns
  /\ compressedHistory' =
       Append(compressedHistory,
              compressTurn(Len(compressedHistory) + 1, TRUE, FALSE))
  /\ \E findings \in FindingLists(ExtractedEntries) :
       LET r == addToMemory(findings) IN
       /\ memoryBank' = r.bank
       /\ lastOp' = Called("registerTurn", r.discarded)
  /\ UNCHANGED <<orchestratorVars, parallelVars, ctxConfig, texts>>

\* buildCompressionSummary (722-754), called by buildOptimizedHistory when
\* turns were compressed: the bank is sorted in place.
BuildCompressionSummary ==
  /\ Len(compressedHistory) > 0
  /\ memoryBank' = sortByImportance(memoryBank)
  /\ lastOp' = Called("buildCompressionSummary", <<>>)
  /\ UNCHANGED <<orchestratorVars, parallelVars, ctxConfig, compressedHistory,
                 texts>>

\* contextManager.reset() (822-825)
Reset ==
  /\ memoryBank' = <<>>
  /\ compressedHistory' = <<>>
  /\ lastOp' = Called("reset", <<>>)
  /\ UNCHANGED <<orchestratorVars, parallelVars, ctxConfig, texts>>

NextMemory ==
  \/ AddToMemory
  \/ RegisterTurn
  \/ BuildCompressionSummary
  \/ Reset

SpecMemory == InitMemory /\ [][NextMemory]_vars

\* ------------------------------------------- ParallelExecutor.executeBatch
\* The queries of a call have the ids 1..queries; the text of query q is q.
\* A delegate invocation is <<q, a>>: the executor called for query q on
\* attempt a.  It stays in flight until its promise settles; a timeout of
\* the race (118-123) does not cancel it.
MaxConcurrentOptions == {1, 2}
RetryCountOptions == {0, 1}

\* Variant: the entry is stored under the arrival number instead of the id.
mapSetByArrival(map, id, value) ==
  ((Cardinality(DOMAIN map) + 1) :> value) @@ map

\* Map.prototype.set
mapSet(map, id, value) == (id :> value) @@ map

\* Lines 76-78: the batch a query falls in, and the number of batches.
batchOf(q) == ((q - 1) \div peConfig.maxConcurrent) + 1
batchCount(n) ==
  (n + peConfig.maxConcurrent - 1) \div peConfig.maxConcurrent

\* A batch.map callback before its batch has started.
Waiting ==
  [state |-> "waiting", attempt |-> 0, invoked |-> 0, failed |-> 0,
   waited |-> 0, lastError |-> Null]

\* Lines 80-84 and 116-119: batch b starts; each of its callbacks runs up to
\* the first delegate invocation.
startBatch(ts, b) ==
  [q \in DOMAIN ts |->
     IF batchOf(q) = b
     THEN [ts[q] EXCEPT !.state = "calling", !.invoked = 1]
     ELSE ts[q]]
invocationsOf(ts, b) == {<<q, 0>> : q \in {i \in DOMAIN ts : batchOf(i) = b}}

\* Every callback of batch b has returned: Promise.all (96) resolves.
batchSettled(ts, b) ==
  \A q \in DOMAIN ts : batchOf(q) = b => ts[q].state = "settled"

\* Lines 80-104: a callback returned without throwing.  If that resolves the
\* awaited Promise.all, the loop starts the next batch or executeBatch
\* returns.
AfterSettle(ts, infl) ==
  IF peState.status = "running" /\ batchSettled(ts, batch)
  THEN IF batch < batchCount(queries)
       THEN /\ tasks' = startBatch(ts, batch + 1)
            /\ inflight' = infl \cup invocationsOf(ts, batch + 1)
            /\ batch' = batch + 1
            /\ peState' = peState
       ELSE /\ tasks' = ts
            /\ inflight' = infl
            /\ batch' = batch
            /\ peState' = [peState EXCEPT !.status = "returned"]
  ELSE /\ tasks' = ts
       /\ inflight' = infl
       /\ UNCHANGED <<batch, peState>>

\* Variant: the backoff wait also follows the last attempt.
backsOffAlways(attempt) == TRUE

\* executeWithRetry (126): attempt < this.config.retryCount
backsOff(attempt) == attempt < peConfig.retryCount

\* executeWithRetry (116, 133) and the catch of the callback (87-93): the
\* loop goes to the next attempt and calls the delegate again, or it is over
\* and lastError is thrown, which the callback records and, with failFast,
\* throws on, rejecting the Promise.all of its batch.
Resume(q, ts, infl) ==
  LET a == ts[q].attempt + 1 IN
  IF a <= peConfig.retryCount
  THEN /\ tasks' = [ts EXCEPT ![q].attempt = a, ![q].state = "calling",
                              ![q].invoked = @ + 1]
       /\ inflight' = infl \cup {<<q, a>>}
       /\ UNCHANGED <<results, errors, batch, peState>>
  ELSE /\ errors' = mapSet(errors, q,
                           [query |-> q, kind |-> ts[q].lastError])
       /\ results' = results
       /\ IF peConfig.failFast
          THEN /\ tasks' = [ts EXCEPT ![q].state = "settled"]
               /\ inflight' = infl
               /\ batch' = batch
               /\ peState' = IF peState.status = "running"
                             THEN [status |-> "threw", error |-> q]
                             ELSE peState
          ELSE AfterSettle([ts EXCEPT ![q].state = "settled"], infl)

\* executeWithRetry (124-130): the race of an attempt was lost or rejected.
Fail(q, kind, infl) ==
  LET ts == [tasks EXCEPT ![q].lastError = kind, ![q].failed = @ + 1] IN
  IF backsOff(tasks[q].attempt)
  THEN /\ tasks' = [ts EXCEPT ![q].state = "backoff", ![q].waited = @ + 1]
       /\ inflight' = infl
       /\ UNCHANGED <<results, errors, batch, peState>>
  ELSE Resume(q, ts, infl)

\* The invocation whose race callback q is waiting for.
current(q) == <<q, tasks[q].attempt>>
Calling(q) == tasks[q].state = "calling" /\ current(q) \in inflight

\* A constructed ParallelExecutor, the rest of the program left as
\* constructed.
InitParallel ==
  /\ cfg = Constructor(Null, Null, 0, 0)
  /\ Idle
  /\ AdvancedIdle
  /\ Caller(PlainProvider, 0)
  /\ ContextManagerDefault
  /\ \E mc \in MaxConcurrentOptions, ff \in BOOLEAN, rc \in RetryCountOptions :
       peConfig = ParallelExecutor(
         [maxConcurrent |-> mc, failFast |-> ff, retryCount |-> rc])
  /\ ParallelExecutorIdle

\* executeBatch(queries, executor) is called (65-84): the maps are created,
\* the batches are cut and the first batch starts.
ExecuteBatch ==
  /\ peState.status = "idle"
  /\ \E n \in 1..MaxQueries :
       /\ queries' = n
       /\ tasks' = startBatch([q \in 1..n |-> Waiting], 1)
       /\ inflight' = invocationsOf([q \in 1..n |-> Waiting], 1)
  /\ batch' = 1
  /\ results' = EmptyMap
  /\ errors' = EmptyMap
  /\ peState' = [status |-> "running", error |-> 0]
  /\ UNCHANGED <<orchestratorVars, contextVars, peConfig>>

\* The delegate's promise resolves before the timeout (118-119, 84-86): the
\* value it produced is stored under the id of the callback's query.
DelegateResolves ==
  \E q \in DOMAIN tasks :
    /\ Calling(q)
    /\ results' = mapSet(results, q,
                         [query |-> q, attempt |-> tasks[q].attempt])
    /\ errors' = errors
    /\ AfterSettle([tasks EXCEPT ![q].state = "settled"],
                   inflight \ {current(q)})
    /\ UNCHANGED <<orchestratorVars, contextVars, peConfig, queries>>

\* The delegate's promise rejects before the timeout (124-130).
DelegateRejects ==
  \E q \in DOMAIN tasks :
    /\ Calling(q)
    /\ Fail(q, "failed", inflight \ {current(q)})
    /\ UNCHANGED <<orchestratorVars, contextVars, peConfig, queries>>

\* The timeout of the race fires first (120-122): the attempt fails with
\* 'Query timeout' while the delegate's invocation goes on.
CallTimeout ==
  \E q \in DOMAIN tasks :
    /\ Calling(q)
    /\ Fail(q, "timeout", inflight)
    /\ UNCHANGED <<orchestratorVars, contextVars, peConfig, queries>>

\* The backoff wait is over (128).
BackoffEnds ==
  \E q \in DOMAIN tasks :
    /\ tasks[q].state = "backoff"
    /\ Resume(q, tasks, inflight)
    /\ UNCHANGED <<orchestratorVars, contextVars, peConfig, queries>>

\* Variant: the result of an invocation whose race was lost is stored all
\* the same.
AbandonedSettlesRecorded ==
  \E i \in inflight :
    /\ ~(tasks[i[1]].state = "calling" /\ tasks[i[1]].attempt = i[2])
    /\ inflight' = inflight \ {i}
    /\ results' = mapSet(results, i[1], [query |-> i[1], attempt |-> i[2]])
    /\ UNCHANGED <<orchestratorVars, contextVars, peConfig, queries, batch,
                   tasks, errors, peState>>

\* An invocation whose race was lost to the timeout settles; nothing waits
\* for it.
AbandonedSettles ==
  \E i \in inflight :
    /\ ~(tasks[i[1]].state = "calling" /\ tasks[i[1]].attempt = i[2])
    /\ inflight' = inflight \ {i}
    /\ UNCHANGED <<orchestratorVars, contextVars, peConfig, queries, batch,
                   tasks, results, errors, peState>>

NextParallel ==
  \/ ExecuteBatch
  \/ DelegateResolves
  \/ DelegateRejects
  \/ CallTimeout
  \/ BackoffEnds
  \/ AbandonedSettles

SpecParallel == InitParallel /\ [][NextParallel]_vars

\* The timers of executeWithRetry fire: the timeout of a race that is still
\* awaited (120-122) and the end of a backoff wait (128).  Nothing is
\* assumed of the delegate, whose promise may never settle.
SpecParallelFair ==
  SpecParallel /\ WF_vars(CallTimeout) /\ WF_vars(BackoffEnds)

\* ------------------------------------- executeParallelQueries
\* An orchestrator constructed with maxTurns 1, maxSubCalls 1 and a
\* configuration of its ParallelExecutor (advancedConfig.parallel, part_006
\* 135); processQuery is called once.
InitParallelQueries ==
  /\ cfg = Constructor(Null, Null, 1, 1)
  /\ Idle
  /\ AdvancedIdle
  /\ Caller(PlainProvider, 1)
  /\ ContextManagerDefault
  /\ \E ff \in BOOLEAN, rc \in RetryCountOptions :
       peConfig = ParallelExecutor([failFast |-> ff, retryCount |-> rc])
  /\ ParallelExecutorIdle

\* Variant: the parallel queries are refused once the delegation ceiling
\* is reached.
ExecuteParallelQueriesUnderCeiling ==
  /\ pc = "done"
  /\ ~CeilingReached
  /\ ExecuteBatch

\* orchestrator.executeParallelQueries(queries) (581-604), called when
\* processQuery has returned: enableParallelExecution is true, so the
\* queries go to parallelExecutor.executeBatch with callModel on the sub
\* model as the delegate.  The promise resolves with batchResult.results
\* when executeBatch returns and rejects when executeBatch throws.
ExecuteParallelQueries ==
  /\ pc = "done"
  /\ ExecuteBatch

NextParallelQueries ==
  \/ Next
  \/ ExecuteParallelQueries
  \/ DelegateResolves
  \/ DelegateRejects
  \/ CallTimeout
  \/ BackoffEnds
  \/ AbandonedSettles

SpecParallelQueries == InitParallelQueries /\ [][NextParallelQueries]_vars

\* ------------------------------------------------- ContextRotDetector
\* the analyzeResponse calls of one run: matches counted by the detector
MaxMatches == 4

\* The responses given to the detector: without signal; holding "can you
\* remind me" and nothing else; the same with four '?'; holding one
\* retention phrase; bare with three rot phrases.
DetectorSignals ==
  {Quiet, Signals(1, 0, 0, FALSE), Signals(1, 0, 4, FALSE),
   Signals(0, 1, 0, FALSE), Signals(3, 0, 0, TRUE)}

\* A constructed detector, the rest of the program left as constructed.
InitDetector ==
  /\ cfg = Constructor(Null, Null, 0, 0)
  /\ Idle
  /\ AdvancedIdle
  /\ Caller(PlainProvider, 0)
  /\ ContextManagerDefault
  /\ peConfig = ParallelExecutor(NoConfig)
  /\ ParallelExecutorIdle

unchangedByDetector ==
  <<cfg, subCallCount, finalAnswer, output, pc, fileCount, turn, turns,
    history, histBase, response, exec, lastCall, progress, result, thrown,
    view, callerVars, compressorVars, contextVars, parallelVars,
    refinerVars, attentionVars>>

\* detector.analyzeResponse(response)
AnalyzeResponse ==
  /\ \E sig \in DetectorSignals :
       LET r == analyzeResponse(sig) IN
       /\ r.rotIndicatorCount <= MaxMatches
       /\ r.memoryReferenceCount <= MaxMatches
       /\ recentResponses' = r.recentResponses
       /\ rotIndicatorCount' = r.rotIndicatorCount
       /\ memoryReferenceCount' = r.memoryReferenceCount
       /\ rotIndicators' = r.returned
  /\ UNCHANGED unchangedByDetector

\* detector.reset() (470-474)
DetectorReset ==
  /\ recentResponses' = <<>>
  /\ memoryReferenceCount' = 0
  /\ rotIndicatorCount' = 0
  /\ UNCHANGED <<rotIndicators, unchangedByDetector>>

NextDetector ==
  \/ AnalyzeResponse
  \/ DetectorReset

SpecDetector == InitDetector /\ [][NextDetector]_vars

\* ------------------------------------------------- AdaptiveCompressor
\* config given to the constructor: none, a lower floor, the thresholds of
\* the documentation
AdaptiveConfigs ==
  {NoConfig, [minResultLength |-> 100],
   [targetUsagePercent |-> 50, aggressiveThreshold |-> 70,
    emergencyThreshold |-> 85]}
\* maxContextTokens given to the constructor
TokenCeilings == {DefaultMaxContextTokens, 1000}
\* estimatedTokens given to updateUsage: the values around each threshold
\* of both ceilings, and one beyond the ceiling
UsageEstimates ==
  {0, 499, 500, 699, 700, 799, 800, 849, 850, 899, 900, 1000,
   49999, 50000, 69999, 70000, 79999, 80000, 84999, 85000, 89999, 90000,
   100000, 120000}
\* baseLength given to getMaxResultLength
BaseLengths == {0, 99, 100, 499, 500, 667, 1000, 1500, 2000}

Levels == <<"none", "normal", "aggressive", "emergency">>
\* the position of a level in none < normal < aggressive < emergency
LevelRank(level) == CHOOSE i \in 1..4 : Levels[i] = level

\* Variant: a threshold is reached only when the usage is above it.
usagePercentAbove(threshold) ==
  currentUsage * 100 > threshold * maxContextTokens

\* getCompressionLevel 226-228: usagePercent >= threshold, where
\* usagePercent = (currentUsage / maxContextTokens) * 100.  The quotients
\* that are exactly 0.5, 0.7, 0.8, 0.85 and 0.9 give exactly 50, 70, 80, 85
\* and 90 in double arithmetic, so the comparison is the one on integers.
usagePercentAtLeast(threshold) ==
  currentUsage * 100 >= threshold * maxContextTokens

\* AdaptiveCompressor.getCompressionLevel (225-238)
getCompressionLevel ==
  IF usagePercentAtLeast(acConfig.emergencyThreshold) THEN "emergency"
  ELSE IF usagePercentAtLeast(acConfig.aggressiveThreshold) THEN "aggressive"
  ELSE IF usagePercentAtLeast(acConfig.targetUsagePercent) THEN "normal"
  ELSE "none"

\* AdaptiveCompressor.getMaxResultLength (243-256); Math.floor of
\* baseLength * 0.3, * 0.5 and * 0.75
getMaxResultLength(baseLength) ==
  LET level == getCompressionLevel
  IN IF level = "emergency"
     THEN Max(acConfig.minResultLength, (baseLength * 3) \div 10)
     ELSE IF level = "aggressive"
     THEN Max(acConfig.minResultLength, baseLength \div 2)
     ELSE IF level = "normal"
     THEN Max(acConfig.minResultLength, (baseLength * 3) \div 4)
     ELSE baseLength

\* A constructed AdaptiveCompressor, the rest of the program left as
\* constructed.
InitCompressor ==
  /\ cfg = Constructor(Null, Null, 0, 0)
  /\ Idle
  /\ \E c \in AdaptiveConfigs, m \in TokenCeilings :
       /\ acConfig = AdaptiveCompressor(c)
       /\ maxContextTokens = m
  /\ currentUsage = 0
  /\ acResult = NoMeasure
  /\ recentResponses = <<>>
  /\ memoryReferenceCount = 0
  /\ rotIndicatorCount = 0
  /\ rotIndicators = NoIndicators
  /\ observed = <<>>
  /\ texts = <<>>
  /\ RefinementIdle
  /\ Caller(PlainProvider, 0)
  /\ ContextManagerDefault
  /\ peConfig = ParallelExecutor(NoConfig)
  /\ ParallelExecutorIdle

unchangedByCompressor ==
  <<cfg, subCallCount, finalAnswer, output, pc, fileCount, turn, turns,
    history, histBase, response, exec, lastCall, progress, result, thrown,
    view, callerVars, detectorVars, contextVars, parallelVars, acConfig,
    maxContextTokens, refinerVars, attentionVars>>

\* compressor.updateUsage(estimatedTokens) (205-207)
UpdateUsage ==
  /\ \E estimatedTokens \in UsageEstimates : currentUsage' = estimatedTokens
  /\ UNCHANGED <<acResult, unchangedByCompressor>>

\* compressor.getCompressionLevel()
GetCompressionLevel ==
  /\ acResult' = [op |-> "getCompressionLevel", usage |-> currentUsage,
                  base |-> 0, level |-> getCompressionLevel, value |-> 0]
  /\ UNCHANGED <<currentUsage, unchangedByCompressor>>

\* compressor.getMaxResultLength(baseLength)
GetMaxResultLength ==
  /\ \E baseLength \in BaseLengths :
       acResult' = [op |-> "getMaxResultLength", usage |-> currentUsage,
                    base |-> baseLength, level |-> getCompressionLevel,
                    value |-> getMaxResultLength(baseLength)]
  /\ UNCHANGED <<currentUsage, unchangedByCompressor>>

NextCompressor ==
  \/ UpdateUsage
  \/ GetCompressionLevel
  \/ GetMaxResultLength

SpecCompressor == InitCompressor /\ [][NextCompressor]_vars

\* ------------------------------------- ContextManager.compressResult
\* A text is the sequence of its lines (text.split('\n'), never empty); a
\* line is reduced to its length and to what compressResult tests on it:
\*   "header"    starts with '#'
\*   "keyheader" a header that holds 'conclusion', 'summary' or 'key'
\*   "bullet"    starts with '-', '*' or the bullet sign
\*   "numbered"  starts with digits and a dot
\*   "plain"     any other line that is not blank
\*   "blank"     empty after trim()
\* Lines carry no leading blanks, a numbered line starts with one digit and
\* the key word of a key header is its last word.
LineKinds == {"header", "keyheader", "bullet", "numbered", "plain"}
LineLengths == {10, 30, 50}
Line(kind, len) == [kind |-> kind, len |-> len]
EmptyLine == Line("blank", 0)
Lines == {Line(k, n) : k \in LineKinds, n \in LineLengths} \cup {EmptyLine}
\* the delegated-call outputs given to compressResult
Texts == UNION {[1..n -> Lines] : n \in 1..MaxLines}
\* config.maxResultLength given to the ContextManager constructor
ResultLengths == {40, 50, 60, DEFAULT_CONFIG.maxResultLength}

\* compressResult 492, 498: importantLines.length < 30
BulletLimit == 30
\* compressResult 507: importantLines.length < 40
SectionLimit == 40
\* the length of '[... truncated for context efficiency ...]'
MarkerLength == 42
MarkerLine == Line("plain", MarkerLength)

RECURSIVE Length(_)
\* text.length: the lines and the line feeds between them
Length(text) ==
  IF Len(text) = 1 THEN text[1].len
  ELSE text[1].len + 1 + Length(Tail(text))

\* importantLines.join('\n')
Join(lines) == IF lines = <<>> THEN <<EmptyLine>> ELSE lines

\* the first n characters of a line
cutLine(line, n) ==
  IF n >= line.len THEN line
  ELSE IF n = 0 THEN EmptyLine
  ELSE Line(IF line.kind = "keyheader" THEN "header"
            ELSE IF line.kind = "numbered" /\ n < 2 THEN "plain"
            ELSE line.kind,
            n)

RECURSIVE takeChars(_, _)
\* the first n characters of a text, n >= 0
takeChars(text, n) ==
  IF text[1].len >= n \/ Len(text) = 1 THEN <<cutLine(text[1], n)>>
  ELSE <<text[1]>> \o takeChars(Tail(text), n - text[1].len - 1)

\* text.slice(0, end): a negative end counts from the end of the text
slice(text, end) ==
  takeChars(text, IF end < 0 THEN Max(0, Length(text) + end) ELSE end)

RECURSIVE extractLines(_, _, _)
\* compressResult 480-511: the loop over the lines; inKey: currentSection
\* holds 'conclusion', 'summary' or 'key'
extractLines(lines, importantLines, inKey) ==
  IF lines = <<>> THEN importantLines
  ELSE
    LET line == Head(lines)
        rest == Tail(lines)
        kept == Append(importantLines, line)
    IN IF line.kind \in {"header", "keyheader"}
       THEN extractLines(rest, kept, line.kind = "keyheader")
       ELSE IF line.kind \in {"bullet", "numbered"}
               /\ Len(importantLines) < BulletLimit
       THEN extractLines(rest, kept, inKey)
       ELSE IF inKey /\ line.kind # "blank"
               /\ Len(importantLines) < SectionLimit
       THEN extractLines(rest, kept, inKey)
       ELSE extractLines(rest, importantLines, inKey)

\* Variant: the text is cut at the budget, with no room left for the marker.
keptLengthWhole(maxResultLength) == maxResultLength

\* compressResult 517: this.config.maxResultLength - 50
keptLength(maxResultLength) == maxResultLength - 50

\* ContextManager.compressResult (470-522)
compressResult(text) ==
  IF Length(text) <= ctxConfig.maxResultLength THEN text
  ELSE
    LET compressed == Join(extractLines(text, <<>>, FALSE))
    IN IF Length(compressed) > ctxConfig.maxResultLength
       THEN slice(compressed, keptLength(ctxConfig.maxResultLength))
              \o <<EmptyLine, MarkerLine>>
       ELSE compressed

\* A ContextManager constructed with a result budget and a delegated-call
\* output, the rest of the program left as constructed.
InitText ==
  /\ cfg = Constructor(Null, Null, 0, 0)
  /\ Idle
  /\ acConfig = AdaptiveCompressor(NoConfig)
  /\ maxContextTokens = DefaultMaxContextTokens
  /\ currentUsage = 0
  /\ acResult = NoMeasure
  /\ recentResponses = <<>>
  /\ memoryReferenceCount = 0
  /\ rotIndicatorCount = 0
  /\ rotIndicators = NoIndicators
  /\ observed = <<>>
  /\ RefinementIdle
  /\ Caller(PlainProvider, 0)
  /\ \E m \in ResultLengths :
       ctxConfig = ContextManager([maxResultLength |-> m])
  /\ memoryBank = <<>>
  /\ lastOp = NoOp
  /\ \E x \in Texts : texts = <<x>>
  /\ peConfig = ParallelExecutor(NoConfig)
  /\ ParallelExecutorIdle

\* contextManager.compressResult, applied to the text obtained latest
CompressResult ==
  /\ Len(texts) <= MaxCompressions
  /\ texts' = Append(texts, compressResult(texts[Len(texts)]))
  /\ UNCHANGED <<orchestratorVars, parallelVars, ctxConfig, memoryBank,
                 lastOp, compressedHistory>>

NextText == CompressResult

SpecText == InitText /\ [][NextText]_vars

\* ------------------------------- AdaptiveCompressor.compressAdaptively
\* Besides the lines compressResult tells apart, compressAdaptively tells
\*   "marked"    a line, plain to compressResult, that holds 'CRITICAL',
\*               'ERROR' or 'WARNING'
\* The other lines of the model hold none of these words, and no bullet
\* starts with '**' or with the bullet sign.
OutputLengths == {30, 50}
OutputLines ==
  {Line(k, n) : k \in LineKinds \cup {"marked"}, n \in OutputLengths}
    \cup {EmptyLine}
\* the delegated-call outputs given to either compression
Outputs == UNION {[1..n -> OutputLines] : n \in 1..MaxLines}
\* baseMaxLength given to compressAdaptively
OutputBaseLengths == {60, 100}
\* estimatedTokens that give the levels none, normal, aggressive and
\* emergency under the ceiling SmallMaxContextTokens
OutputUsages == {0, 700, 800, 900}

\* compressAdaptively 291: importantLines.length < 20
AggressiveLimit == 20
\* compressAdaptively 297: importantLines.length < 40
NormalLimit == 40
\* compressAdaptively 307: maxLength - 30
adaptiveKeptLength(maxLength) == maxLength - 30
\* the length of '[...compressed...]'
CompressedMarkerLength == 18
CompressedMarkerLine == Line("plain", CompressedMarkerLength)

RECURSIVE adaptiveLines(_, _, _)
\* compressAdaptively 269-302: the loop over the lines
adaptiveLines(lines, importantLines, level) ==
  IF lines = <<>> THEN importantLines
  ELSE
    LET line == Head(lines)
        rest == Tail(lines)
        kept == Append(importantLines, line)
        listed == line.kind \in {"bullet", "numbered"}
    IN IF line.kind \in {"header", "keyheader"}
       THEN adaptiveLines(rest, kept, level)
       ELSE IF level = "emergency"
       THEN IF line.kind = "marked"
            THEN adaptiveLines(rest, kept, level)
            ELSE adaptiveLines(rest, importantLines, level)
       ELSE IF level = "aggressive"
       THEN IF listed /\ Len(importantLines) < AggressiveLimit
            THEN adaptiveLines(rest, kept, level)
            ELSE adaptiveLines(rest, importantLines, level)
       ELSE IF listed /\ Len(importantLines) < NormalLimit
            THEN adaptiveLines(rest, kept, level)
            ELSE adaptiveLines(rest, importantLines, level)

\* AdaptiveCompressor.compressAdaptively (261-311)
compressAdaptively(content, baseMaxLength) ==
  LET maxLength == getMaxResultLength(baseMaxLength) IN
  IF Length(content) <= maxLength THEN content
  ELSE
    LET compressed ==
          Join(adaptiveLines(content, <<>>, getCompressionLevel))
    IN IF Length(compressed) > maxLength
       THEN slice(compressed, adaptiveKeptLength(maxLength))
              \o <<CompressedMarkerLine>>
       ELSE compressed

\* A ContextManager and an AdaptiveCompressor constructed with short
\* budgets, a usage already reported to the compressor, and a
\* delegated-call output; the rest of the program left as constructed.
InitOutputs ==
  /\ cfg = Constructor(Null, Null, 0, 0)
  /\ Idle
  /\ acConfig = AdaptiveCompressor([minResultLength |-> 40])
  /\ maxContextTokens = SmallMaxContextTokens
  /\ \E u \in OutputUsages : currentUsage = u
  /\ acResult = NoMeasure
  /\ recentResponses = <<>>
  /\ memoryReferenceCount = 0
  /\ rotIndicatorCount = 0
  /\ rotIndicators = NoIndicators
  /\ observed = <<>>
  /\ RefinementIdle
  /\ Caller(PlainProvider, 0)
  /\ ctxConfig = ContextManager([maxResultLength |-> 60])
  /\ memoryBank = <<>>
  /\ lastOp = NoOp
  /\ \E x \in Outputs : texts = <<x>>
  /\ peConfig = ParallelExecutor(NoConfig)
  /\ ParallelExecutorIdle

\* adaptiveCompressor.compressAdaptively(content, baseMaxLength), applied
\* to the delegated-call output; acResult keeps the budget maxLength.
CompressAdaptively ==
  /\ Len(texts) = 1
  /\ \E baseMaxLength \in OutputBaseLengths :
       /\ texts' = Append(texts, compressAdaptively(texts[1], baseMaxLength))
       /\ acResult' = [op |-> "compressAdaptively", usage |-> currentUsage,
                       base |-> baseMaxLength, level |-> getCompressionLevel,
                       value |-> getMaxResultLength(baseMaxLength)]
  /\ UNCHANGED <<cfg, subCallCount, finalAnswer, output, pc, fileCount, turn,
                 turns, history, histBase, response, exec, lastCall, progress,
                 result, thrown, view, callerVars, detectorVars, refinerVars,
                 attentionVars, acConfig, maxContextTokens, currentUsage,
                 parallelVars, ctxConfig, memoryBank, lastOp,
                 compressedHistory>>

NextOutputs ==
  \/ CompressResult
  \/ CompressAdaptively

SpecOutputs == InitOutputs /\ [][NextOutputs]_vars

\* ------------------------------------------------- IterativeRefiner
\* config given to the constructor
RefinementConfigs == {NoConfig, [maxPasses |-> 1], [maxPasses |-> 2]}
\* qualityScore given to recordPass, as evaluateQuality returns it (0..100)
QualityScores == {40, 50, 52, 60, 70, 85}
\* previousScore null
NoScore == -1

\* IterativeRefiner.shouldContinueRefinement (805-828).shouldContinue
shouldContinueRefinement(currentScore, previousScore) ==
  IF Len(passHistory) >= rfConfig.maxPasses THEN FALSE
  ELSE IF currentScore >= rfConfig.qualityThreshold THEN FALSE
  ELSE IF previousScore # NoScore
          /\ currentScore - previousScore < rfConfig.minImprovement
  THEN FALSE
  ELSE TRUE

\* IterativeRefiner.recordPass (833-854): the RefinementPassResult pushed
\* and returned
recordPass(qualityScore) ==
  LET previousScore == IF Len(passHistory) > 0
                       THEN passHistory[Len(passHistory)].qualityScore
                       ELSE NoScore
  IN [pass |-> Len(passHistory) + 1,
      qualityScore |-> qualityScore,
      shouldContinue |-> shouldContinueRefinement(qualityScore, previousScore)]

\* A constructed IterativeRefiner, the rest of the program left as
\* constructed.
InitRefiner ==
  /\ cfg = Constructor(Null, Null, 0, 0)
  /\ Idle
  /\ acConfig = AdaptiveCompressor(NoConfig)
  /\ maxContextTokens = DefaultMaxContextTokens
  /\ currentUsage = 0
  /\ acResult = NoMeasure
  /\ recentResponses = <<>>
  /\ memoryReferenceCount = 0
  /\ rotIndicatorCount = 0
  /\ rotIndicators = NoIndicators
  /\ observed = <<>>
  /\ texts = <<>>
  /\ \E c \in RefinementConfigs : rfConfig = IterativeRefiner(c)
  /\ passHistory = <<>>
  /\ weights = DEFAULT_ATTENTION_WEIGHTS
  /\ queryContext = PlainQuery
  /\ Caller(PlainProvider, 0)
  /\ ContextManagerDefault
  /\ peConfig = ParallelExecutor(NoConfig)
  /\ ParallelExecutorIdle

unchangedByRefiner ==
  <<cfg, subCallCount, finalAnswer, output, pc, fileCount, turn, turns,
    history, histBase, response, exec, lastCall, progress, result, thrown,
    view, callerVars, compressorVars, detectorVars, contextVars,
    parallelVars, rfConfig, attentionVars>>

\* A pass of a refinement driver: it made no pass yet for this query, or
\* the pass result returned to it latest has shouldContinue set; it scores
\* its draft and calls refiner.recordPass(qualityScore, ...).
RecordPass ==
  /\ IF passHistory = <<>> THEN TRUE
     ELSE passHistory[Len(passHistory)].shouldContinue
  /\ \E qualityScore \in QualityScores :
       passHistory' = Append(passHistory, recordPass(qualityScore))
  /\ UNCHANGED unchangedByRefiner

\* refiner.reset() (876-878), called for a new query
RefinerReset ==
  /\ passHistory' = <<>>
  /\ UNCHANGED unchangedByRefiner

NextRefiner ==
  \/ RecordPass
  \/ RefinerReset

SpecRefiner == InitRefiner /\ [][NextRefiner]_vars

\* ====================================================== properties
Last(seq) == seq[Len(seq)]

\* The file-count tiers of the delegated-call minimum, as the specification
\* states them.
TierMinimum(n) ==
  IF n >= 200 THEN 5
  ELSE IF n >= 100 THEN 4
  ELSE IF n >= 50 THEN 3
  ELSE IF n >= 20 THEN 2
  ELSE 1

\* A finalize value is present at the termination check of the turn: in the
\* sandbox's finalize slot or as a literal FINAL call in the response text.
FinalizePresent ==
  pc = "check" /\ (finalAnswer # NoAnswer \/ FinalMatch(response))

\* C1: a session result with success=true exists only when the delegated-call
\* count is at least the file-count minimum, and the answer it carries was
\* written by a turn at whose end the count had already reached the minimum;
\* a finalize value seen below the minimum is never the returned answer.
C1_SuccessOnlyPastGate ==
  (pc = "done" /\ result.success) =>
    /\ subCallCount >= TierMinimum(fileCount)
    /\ result.subCallCount >= TierMinimum(fileCount)
    /\ result.answer \in 1..Len(result.turns)
    /\ result.turns[result.answer].subCallCount >= TierMinimum(fileCount)

\* C1 witness: an answer accepted in the highest tier, five calls made.
C1_Witness ==
  /\ pc = "done"
  /\ result.success
  /\ fileCount = 200
  /\ result.subCallCount >= 5

\* C2 (as claimed): when the script of a turn fails, the literal error text
\* follows the model's response in history, and that turn does not end the
\* session with success.
C2_FailedTurnNeverSucceeds ==
  /\ (pc = "check" /\ response.hasCode /\ ~exec.success) =>
       /\ Len(history) >= 2
       /\ history[Len(history) - 1] = ModelMsg(turn)
       /\ Last(history).role = "user"
       /\ Last(history).kind = "error"
       /\ Last(history).text = exec.error
  /\ (pc = "done" /\ result.success) => ~Last(result.turns).error

ServerClass(a) == ~a.ok /\ (a.message.has500 \/ a.message.hasInternal)
\* The model a logical provider call was made for.
RequestedModel == IF lastCall.kind = "root" THEN cfg.rootModel ELSE cfg.subModel

\* C4 (as claimed): when the root model's attempt fails with a 5xx/internal
\* error, exactly one further attempt, against the fallback model, is made
\* before an error is surfaced, whatever the configuration.
C4_RootFailureRetriedOnFallback ==
  (lastCall.kind = "root" /\ ServerClass(lastCall.attempts[1])) =>
    /\ Len(lastCall.attempts) = 2
    /\ lastCall.attempts[2].model = cfg.fallbackModel

\* C5: a logical provider call makes at most two attempts, the first with the
\* requested model and the second, if any, with the fallback model after a
\* failed first attempt; nothing follows a successful attempt, and a failed
\* fallback attempt fails the call.
C5_AtMostOneRetry ==
  lastCall.kind # Null =>
    /\ Len(lastCall.attempts) \in {1, 2}
    /\ lastCall.attempts[1].model = RequestedModel
    /\ Len(lastCall.attempts) = 2 =>
         /\ lastCall.attempts[2].model = cfg.fallbackModel
         /\ ~lastCall.attempts[1].ok
    /\ lastCall.ok = Last(lastCall.attempts).ok
    /\ ~lastCall.ok =>
         IF lastCall.kind = "root"
         THEN pc = "thrown" /\ thrown # Null
         ELSE pc = "check" /\ ~exec.success /\ exec.error # Null

\* C5 witness: both the requested model and the fallback failed with a
\* 5xx/internal error.
C5_Witness ==
  /\ lastCall.kind = "sub"
  /\ Len(lastCall.attempts) = 2
  /\ ServerClass(lastCall.attempts[1])
  /\ ServerClass(lastCall.attempts[2])

\* C6: an attempt that fails with an error outside the 5xx/internal class is
\* the last attempt of its call and fails the call with that error; on the
\* root-model call processQuery rejects and nothing further happens.
C6_FatalFailureEscalates ==
  /\ \A i \in 1..Len(lastCall.attempts) :
       (~lastCall.attempts[i].ok /\ ~ServerClass(lastCall.attempts[i])) =>
         /\ i = Len(lastCall.attempts)
         /\ ~lastCall.ok
         /\ IF lastCall.kind = "root"
            THEN pc = "thrown" /\ thrown = "Gemini API error"
            ELSE pc = "check" /\ exec.error = "Gemini API error"
  /\ pc = "thrown" => ~ENABLED Next

\* C6 witness: the root call failed fatally on the first attempt although a
\* distinct fallback model was configured.
C6_Witness ==
  /\ pc = "thrown"
  /\ cfg.rootModel # cfg.fallbackModel
  /\ Len(lastCall.attempts) = 1
  /\ ~ServerClass(lastCall.attempts[1])
  /\ Len(turns) >= 1

\* C7: the recorded turns and the turn being generated never exceed maxTurns;
\* a session that recorded maxTurns turns without an accepted finalize ends
\* with success=false, answer=null and the sandbox's output in the error.
C7_TurnsBounded ==
  /\ Len(turns) <= cfg.maxTurns
  /\ pc \in {"call", "respond", "sandbox", "check"} => turn <= cfg.maxTurns
  /\ (pc = "loop" /\ Len(turns) = cfg.maxTurns) =>
       (~ENABLED BeginTurn /\ ~ENABLED Timeout /\ ENABLED MaxTurnsExceeded)
  /\ (pc = "done" /\ Len(result.turns) = cfg.maxTurns /\ ~result.success) =>
       /\ result.error = "Max turns exceeded"
       /\ result.answer = NoAnswer
       /\ result.partial = output
  /\ (pc = "done" /\ result.error = "Max turns exceeded") =>
       Len(result.turns) = cfg.maxTurns

\* C7 witness: max turns exceeded with output accumulated.
C7_Witness ==
  /\ pc = "done"
  /\ result.error = "Max turns exceeded"
  /\ Len(result.partial) >= 2

\* C8: a finalize value present while the delegated-call count is below the
\* tier minimum is rejected without ending the session: the finalize slot is
\* empty afterwards and whenever a turn starts, the corrective message with
\* the count made, the minimum and their difference is the last entry of
\* history, and the loop moves to the next turn; a finalize present once the
\* minimum is met ends the session with success and that turn's answer.
\* With 30 files: rejected on turn 1 after zero calls with minimum 2, accepted
\* on turn 3 after two calls.
C8_PrematureFinalizeRejected ==
  /\ [][(FinalizePresent /\ subCallCount < TierMinimum(fileCount)) =>
          /\ finalAnswer' = NoAnswer
          /\ Last(history').kind = "insufficient"
          /\ Last(history').role = "user"
          /\ Last(history').made = subCallCount
          /\ Last(history').required = TierMinimum(fileCount)
          /\ Last(history').more = TierMinimum(fileCount) - subCallCount
          /\ Last(history').more > 0
          /\ pc' = "loop"
          /\ turn' = turn + 1
          /\ result' = NoResult
          /\ thrown' = Null]_vars
  /\ [][(FinalizePresent /\ subCallCount >= TierMinimum(fileCount)) =>
          /\ pc' = "done"
          /\ result'.success
          /\ result'.answer = turn]_vars
  /\ [][(FinalizePresent /\ fileCount = 30 /\ turn = 1 /\ subCallCount = 0) =>
          (Last(history').required = 2 /\ pc' = "loop")]_vars
  /\ [][(FinalizePresent /\ fileCount = 30 /\ turn = 3 /\ subCallCount = 2) =>
          (result'.success /\ result'.answer = 3)]_vars
  /\ [](pc \in {"loop", "call"} => finalAnswer = NoAnswer)

\* C8 witness: 30 files, the finalize of turn 1 was rejected after zero calls
\* with minimum 2, and the sandbox's slot had held the value.
C8_Witness ==
  /\ pc = "loop"
  /\ turn = 2
  /\ fileCount = 30
  /\ Len(history) >= 5
  /\ Last(history).kind = "insufficient"
  /\ Last(history).made = 0
  /\ Last(history).required = 2
  /\ history[Len(history) - 2].kind = "result"

\* C9: the delegated-call count never exceeds maxSubCalls; a delegation call
\* made at the ceiling makes no provider attempt, leaves the count unchanged,
\* sends no sub-LLM progress report, and its error reaches history as the
\* turn's script error while processQuery goes on to the turn's end.
C9_CeilingEnforced ==
  /\ [](subCallCount <= cfg.maxSubCalls)
  /\ [][(AtOp("query") /\ subCallCount >= cfg.maxSubCalls) =>
          /\ subCallCount' = subCallCount
          /\ lastCall' = NoCall
          /\ progress'.phase # "sub-llm"
          /\ progress'.n = 1
          /\ output' = output
          /\ ~exec'.success
          /\ exec'.error = "Maximum sub-LLM calls exceeded"
          /\ Last(history') = ErrorMsg(turn, "Maximum sub-LLM calls exceeded")
          /\ Last(turns').error
          /\ pc' = "check"
          /\ thrown' = Null
          /\ result' = NoResult]_vars

\* C9 witness: a delegation call was refused at the ceiling.
C9_Witness ==
  /\ pc = "check"
  /\ exec.error = "Maximum sub-LLM calls exceeded"
  /\ subCallCount = cfg.maxSubCalls
  /\ lastCall = NoCall

\* C10: the delegated-call count never decreases; it changes only by an
\* admitted delegation, by exactly one; the counts of successive progress
\* reports and of successive turn records never decrease, and the count of
\* the session result is at least that of every recorded turn.
C10_CountMonotone ==
  /\ [][/\ subCallCount' >= subCallCount
        /\ subCallCount' # subCallCount =>
             /\ AtOp("query")
             /\ subCallCount < cfg.maxSubCalls
             /\ subCallCount' = subCallCount + 1
        /\ (AtOp("query") /\ subCallCount < cfg.maxSubCalls) =>
             subCallCount' = subCallCount + 1
        /\ progress'.n > 0 =>
             /\ progress'.subCallCount >= progress.subCallCount
             /\ progress'.subCallCount = subCallCount']_vars
  /\ [](\A i, j \in 1..Len(turns) :
          i <= j => turns[i].subCallCount <= turns[j].subCallCount)
  /\ [](\A i \in 1..Len(turns) : turns[i].subCallCount <= subCallCount)
  /\ [](pc = "done" =>
          \A i \in 1..Len(result.turns) :
            result.turns[i].subCallCount <= result.subCallCount)

\* C10 witness: a result whose turn records carry increasing counts.
C10_Witness ==
  /\ pc = "done"
  /\ Len(result.turns) = 3
  /\ result.turns[1].subCallCount = 1
  /\ result.turns[2].subCallCount = 3
  /\ result.subCallCount = 4

\* The script holds a deny-listed construct.
DenyListed(ops) == \E i \in 1..Len(ops) : ops[i] = "danger"
\* The script is a single finalize call and nothing else.
SingleFinalize(ops) == ops = <<"final">>

\* C11 (as claimed): a script that holds a deny-listed construct and is not
\* a single finalize call is rejected by execute with success=false and a
\* security-violation error, and the output buffer, the finalize slot and
\* the delegated-call count are after the call what they were before it.
C11_DenyListedNeverRuns ==
  /\ [][(/\ pc = "respond"
         /\ response.hasCode
         /\ DenyListed(response.ops)
         /\ ~SingleFinalize(response.ops)) =>
          /\ exec'.done
          /\ ~exec'.success
          /\ exec'.error = "Security violation"
          /\ output' = output
          /\ finalAnswer' = finalAnswer
          /\ subCallCount' = subCallCount]_vars
  /\ [](pc = "sandbox" =>
          (~DenyListed(response.ops) \/ SingleFinalize(response.ops)))

\* C12 (as claimed): with observers supplied, whatever they do when called,
\* every step of processQuery is a step of processQuery without observers
\* (the same turns, history, delegated-call count and result follow from the
\* same provider behaviour), and no error of an observer ends the session or
\* fails a script.
C12_ObserversDoNotAffectControlFlow ==
  /\ [][Next]_vars
  /\ [](thrown # ObserverError)
  /\ [](exec.error # ObserverError)

\* C13: after any sequence of addToMemory and registerTurn calls the memory
\* bank holds at most maxMemoryEntries entries.
C13_BankWithinCapacity == Len(memoryBank) <= ctxConfig.maxMemoryEntries

\* C13 witness: a registerTurn call pruned the bank down to its capacity.
C13_Witness ==
  /\ lastOp.op = "registerTurn"
  /\ lastOp.discarded >= 1
  /\ Len(memoryBank) = ctxConfig.maxMemoryEntries
  /\ compressedHistory # <<>>

\* C14: when addToMemory prunes, every entry kept has importance at least
\* that of every entry discarded, and an entry of the bank is missing after
\* a call only if that call was reset or pruned the bank to its capacity
\* and the entry is no more important than the pruned ones.
C14_PruneKeepsMostImportant ==
  /\ [](\A k \in Range(memoryBank) : k.importance >= lastOp.maxDiscarded)
  /\ [](lastOp.discarded > 0 =>
          /\ lastOp.op \in {"addToMemory", "registerTurn"}
          /\ Len(memoryBank) = ctxConfig.maxMemoryEntries)
  /\ [][\A e \in Range(memoryBank) :
          e \notin Range(memoryBank') =>
            \/ lastOp'.op = "reset"
            \/ /\ lastOp'.op \in {"addToMemory", "registerTurn"}
               /\ lastOp'.discarded > 0
               /\ e.importance <= lastOp'.maxDiscarded]_vars

\* C14 witness: a prune discarded an entry and kept a more important one.
C14_Witness ==
  /\ lastOp.op = "addToMemory"
  /\ lastOp.discarded = 1
  /\ Len(memoryBank) >= 1
  /\ memoryBank[1].importance > lastOp.maxDiscarded

\* Two entries match for the deduplication: same content, or same source
\* and same type.
Matches(a, b) ==
  a.content = b.content \/ (a.source = b.source /\ a.type = b.type)

\* C15: the bank never holds two entries with identical content nor two
\* entries with the same source and the same type; an entry that enters the
\* bank matches no entry that was in the bank before the call, and an entry
\* that stays in the bank is the entry it was.
C15_NoDuplicates ==
  /\ [](\A i, j \in 1..Len(memoryBank) :
          i # j => ~Matches(memoryBank[i], memoryBank[j]))
  /\ [][\A e \in Range(memoryBank') :
          e \notin Range(memoryBank) =>
            \A m \in Range(memoryBank) : ~Matches(m, e)]_vars

\* C15 witness: the bank holds two entries of the same type that differ in
\* source and content.
C15_Witness ==
  /\ Len(memoryBank) = 2
  /\ memoryBank[1].type = memoryBank[2].type
  /\ memoryBank[1].source # memoryBank[2].source
  /\ lastOp.op = "addToMemory"

\* C16 (as claimed): when the full history given to buildOptimizedHistory is
\* longer than 2*slidingWindowSize+2 messages, the view is the first message,
\* one compression summary and the most recent raw messages; whenever a
\* message of the full history is left out of the view, the summary is in it.
C16_SummaryStandsForOmitted ==
  LET w == ctxConfig.slidingWindowSize IN
  view # NoView =>
    /\ view.length > 2 * w + 2 =>
         (view.summary /\ view.startIndex = view.length - 2 * w)
    /\ view.startIndex > 1 => view.summary

\* C17 (as claimed): at no time during executeBatch are more than
\* maxConcurrent delegate invocations in flight, attempts that timed out and
\* were retried included.
C17_InFlightWithinCap == Cardinality(inflight) <= peConfig.maxConcurrent

\* C18: with failFast unset, when executeBatch returns every query id is in
\* exactly one of results and errors, no other key is in them, and the value
\* under an id is the one the delegate produced, or the error the attempts
\* ended with, for that id's own query.
C18_EveryIdAttributedOnce ==
  (peState.status = "returned" /\ ~peConfig.failFast) =>
    /\ (DOMAIN results) \cup (DOMAIN errors) = 1..queries
    /\ (DOMAIN results) \cap (DOMAIN errors) = {}
    /\ \A q \in DOMAIN results : results[q].query = q
    /\ \A q \in DOMAIN errors : errors[q].query = q

\* C18 witness: three queries in two batches; the first ended in errors, the
\* second succeeded on its retry after the third had succeeded at once.
C18_Witness ==
  /\ peState.status = "returned"
  /\ ~peConfig.failFast
  /\ queries = 3
  /\ peConfig.maxConcurrent = 2
  /\ 1 \in DOMAIN errors
  /\ 2 \in DOMAIN results
  /\ results[2].attempt = 1
  /\ 3 \in DOMAIN results
  /\ results[3].attempt = 0

\* C19 (as claimed): with failFast set, the error that leaves executeBatch
\* is that of the first query that ran out of attempts, and from then on no
\* delegate invocation is started, no result or error is recorded and no
\* later batch is started.
C19_FailFastAborts ==
  /\ [](peState.status = "threw" =>
          /\ peConfig.failFast
          /\ peState.error \in DOMAIN errors)
  /\ [][peState.status = "threw" =>
          /\ inflight' \subseteq inflight
          /\ results' = results
          /\ errors' = errors
          /\ batch' = batch
          /\ peState' = peState]_vars

\* C20: for each query the delegate is invoked at most retryCount+1 times
\* and not again after an attempt succeeded; a query is in errors only after
\* retryCount+1 attempts failed or timed out; one backoff wait lies between
\* two consecutive attempts and none follows the last.
C20_BoundedRetries ==
  /\ [](\A q \in DOMAIN tasks :
          LET t == tasks[q] IN
          /\ t.invoked <= peConfig.retryCount + 1
          /\ t.waited <= peConfig.retryCount
          /\ t.state = "calling" =>
               (t.failed = t.invoked - 1 /\ t.waited = t.invoked - 1)
          /\ t.state = "backoff" =>
               (t.failed = t.invoked /\ t.waited = t.invoked
                  /\ t.attempt < peConfig.retryCount)
          /\ t.state = "settled" => t.waited = t.invoked - 1
          /\ q \in DOMAIN results =>
               (t.state = "settled" /\ t.failed = t.invoked - 1)
          /\ q \in DOMAIN errors =>
               /\ t.state = "settled"
               /\ t.invoked = peConfig.retryCount + 1
               /\ t.failed = peConfig.retryCount + 1
               /\ errors[q].kind \in {"failed", "timeout"})
  /\ [][\A q \in DOMAIN tasks :
          /\ tasks[q].state = "settled" =>
               (q \in DOMAIN tasks' /\ tasks'[q] = tasks[q])
          /\ (tasks[q].invoked >= 1 /\ q \in DOMAIN tasks'
                /\ tasks'[q].invoked > tasks[q].invoked) =>
               (tasks[q].state = "backoff"
                  /\ tasks'[q].invoked = tasks[q].invoked + 1)]_vars

\* C20 witness: a query is in errors after two attempts, the last of which
\* timed out, with one backoff wait between them.
C20_Witness ==
  /\ peConfig.retryCount = 1
  /\ 1 \in DOMAIN errors
  /\ errors[1].kind = "timeout"
  /\ tasks[1].invoked = 2
  /\ tasks[1].waited = 1


\* ---------------------------------------------------------------- C21
\* A response that holds "can you remind me" and nothing else the detector
\* scores.
RemindMe(sig) == sig.rot = 1 /\ sig.retention = 0 /\ ~sig.bare

RemindMeWindow(n) ==
  /\ Len(recentResponses) = n
  /\ \A i \in 1..n : RemindMe(recentResponses[i])
  /\ rotIndicatorCount = n

\* C21 (as stated): given three consecutive responses each holding "can you
\* remind me", the confidence accumulates across the window: the first
\* response gets inject_memory and the third gets summarize or restart.
C21_RecommendationEscalates ==
  /\ RemindMeWindow(1) => rotIndicators.recommendation = "inject_memory"
  /\ RemindMeWindow(3) =>
       rotIndicators.recommendation \in {"summarize", "restart"}

\* C21 (amended): the confidence does not accumulate.  Each of up to three
\* consecutive responses that hold "can you remind me" and nothing else
\* gets 20 for its own phrase, to which only a window of three responses
\* averaging more than 3 '?' adds 15: the recommendation is inject_memory
\* for the first, the second and the third.
C21_NoAccumulation ==
  \A n \in 1..3 :
    RemindMeWindow(n) =>
      /\ rotIndicators.recommendation = "inject_memory"
      /\ rotIndicators.confidence =
           IF n = 3 /\ questionCount(recentResponses) > 9 THEN 35 ELSE 20

C21_Witness ==
  /\ RemindMeWindow(3)
  /\ questionCount(recentResponses) = 0
  /\ rotIndicators.confidence = 20


\* ---------------------------------------------------------------- C22
\* C22: for every base length, when getMaxResultLength(base) is asked again
\* under a higher compression level (none < normal < aggressive <
\* emergency), the value returned is not greater than the one returned
\* under the lower level.
C22_HigherLevelNeverLonger ==
  [][(/\ acResult.op = "getMaxResultLength"
      /\ acResult'.op = "getMaxResultLength"
      /\ acResult'.base = acResult.base
      /\ LevelRank(acResult'.level) > LevelRank(acResult.level))
     => acResult'.value <= acResult.value]_vars

\* ---------------------------------------------------------------- C23
\* C23: whatever the base length and the compression level, the value
\* getMaxResultLength returns is at least config.minResultLength.
C23_NeverBelowFloor ==
  acResult.op = "getMaxResultLength" =>
    acResult.value >= acConfig.minResultLength

\* ---------------------------------------------------------------- C24
\* the level the claim gives for a usage, with the default thresholds
DefaultLevel(usage) ==
  IF usage * 100 < 70 * maxContextTokens THEN "none"
  ELSE IF usage * 100 < 80 * maxContextTokens THEN "normal"
  ELSE IF usage * 100 < 90 * maxContextTokens THEN "aggressive"
  ELSE "emergency"

DefaultThresholds ==
  /\ acConfig.targetUsagePercent = DEFAULT_ADAPTIVE_CONFIG.targetUsagePercent
  /\ acConfig.aggressiveThreshold =
       DEFAULT_ADAPTIVE_CONFIG.aggressiveThreshold
  /\ acConfig.emergencyThreshold = DEFAULT_ADAPTIVE_CONFIG.emergencyThreshold

DocumentedLevel(usage) ==
  IF usage * 100 < 50 * maxContextTokens THEN "none"
  ELSE IF usage * 100 < 70 * maxContextTokens THEN "normal"
  ELSE IF usage * 100 <= 85 * maxContextTokens THEN "aggressive"
  ELSE "emergency"

\* C25: with the default configuration the level is none below 50% usage,
\* normal at 50-70%, aggressive at 70-85% and emergency above 85%; after
\* updateUsage(50000) against a ceiling of 100000 it is normal.
C25_DocumentedDefaults ==
  (/\ acConfig = AdaptiveCompressor(NoConfig)
   /\ maxContextTokens = DefaultMaxContextTokens
   /\ acResult.op = "getCompressionLevel")
  => /\ acResult.level = DocumentedLevel(acResult.usage)
     /\ acResult.usage = 50000 => acResult.level = "normal"


\* ---------------------------------------------------------------- C26
\* C26: with maxResultLength of at least 50, a text within maxResultLength
\* is returned unchanged, the text returned for a longer one is within
\* maxResultLength, and applying compressResult to a text it returned
\* gives that text again.
C26_CompressResultIdempotent ==
  ctxConfig.maxResultLength >= 50 =>
    /\ (Len(texts) >= 2 /\ Length(texts[1]) <= ctxConfig.maxResultLength)
         => texts[2] = texts[1]
    /\ Len(texts) >= 2 => Length(texts[2]) <= ctxConfig.maxResultLength
    /\ Len(texts) >= 3 => texts[3] = texts[2]

C26_Witness ==
  /\ ctxConfig.maxResultLength = 60
  /\ Len(texts) = 3
  /\ Length(texts[1]) > 60
  /\ texts[2][Len(texts[2])] = MarkerLine
  /\ Length(texts[2]) > MarkerLength + 2
  /\ texts[3] = texts[2]


\* ---------------------------------------------------------------- C27
\* A processQuery call has just set up its session.
SessionStarts == pc = "loop" /\ turn = 1

\* C27: every processQuery call starts with delegated-call count 0, an
\* empty finalize slot and an empty output buffer, and a finalize value
\* accepted from the slot was put there by a script of the same call.
C27_SessionsStartFresh ==
  /\ [](SessionStarts =>
          subCallCount = 0 /\ finalAnswer = NoAnswer /\ output = <<>>)
  /\ [][(pc = "check" /\ pc' = "done" /\ result'.success
         /\ finalAnswer # NoAnswer)
        => \E i \in 1..Len(turns) : turns[i].code]_vars


\* ---------------------------------------------------------------- C28
\* C28: once a turn is recorded, a memory reminder pushed in that turn
\* stands in history right after the model response that triggered it.
C28_ReminderFollowsResponse ==
  pc = "check" =>
    \A i \in 1..Len(history) :
      history[i] = MemoryMsg(turn) =>
        i > 1 /\ history[i - 1] = ModelMsg(turn)

\* ---------------------------------------------------------------- C29
\* The messages a turn pushed to history, once the turn is over.
TurnMessages ==
  IF turn = 2 THEN Tail(history) ELSE history

\* C29: a completed turn has pushed the model's response once and then one
\* user message (result, error or nudge); a rejected finalize has pushed
\* one more user message, the corrective instruction, and no second copy
\* of the response.
C29_ResponseAppendedOnce ==
  (pc = "loop" /\ turn > 1) =>
    LET t == turn - 1
        pushed == TurnMessages
    IN /\ Len(pushed) \in {2, 3}
       /\ pushed[1] = ModelMsg(t)
       /\ pushed[2].role = "user"
       /\ pushed[2].kind \in {"result", "error", "nudge"}
       /\ Len(pushed) = 3 =>
            pushed[3] = InsufficientMsg(t, subCallCount, minSubCalls)


\* ---------------------------------------------------------------- C30
\* C30: the turn records are numbered 1, 2, ... in the order performed;
\* the compressed history holds one entry per recorded turn with the same
\* turn numbers; onTurnComplete was given each recorded turn once, in turn
\* order; and a turn is recorded and observed before its termination check:
\* at the check the records, the compressed turns and the observations all
\* end with the current turn, and until the turn is recorded they end with
\* the turn before.
C30_TurnsStrictlyOrdered ==
  /\ \A i \in 1..Len(turns) : turns[i].turn = i
  /\ Len(compressedHistory) = Len(turns)
  /\ \A i \in 1..Len(turns) : compressedHistory[i].turn = turns[i].turn
  /\ Len(observed) = Len(turns)
  /\ \A i \in 1..Len(turns) : observed[i] = turns[i].turn
  /\ pc = "check" => Len(turns) = turn
  /\ pc \in {"call", "respond", "sandbox"} => Len(turns) = turn - 1

C30_Witness ==
  /\ pc = "check"
  /\ turn = 3
  /\ Len(observed) = 3
  /\ turns[2].error
  /\ compressedHistory[3].turn = 3


\* ---------------------------------------------------------------- C31
\* The session returned because the deadline had passed.
TimedOut == pc = "done" /\ result.error = "Timeout exceeded"

\* C31: the deadline is checked once per turn, at the top of the loop: the
\* position comes to the check only from the set-up (turn 1) or from the
\* termination check of the turn before (turn + 1), and the timeout result
\* is produced only there, before the turn's provider call.  That result
\* has success false, no answer, the error 'Timeout exceeded' and the turns
\* recorded so far; the step that produces it makes no provider call, runs
\* no script and records no turn, and none of these happens afterwards
\* within the call.
C31_DeadlineCheckedAtTurnStart ==
  /\ [](TimedOut =>
          /\ ~result.success
          /\ result.answer = NoAnswer
          /\ result.turns = turns
          /\ Len(turns) = turn - 1
          /\ lastCall = NoCall)
  /\ [][(pc' = "loop" /\ pc # "loop")
        => turn' = IF pc = "check" THEN turn + 1 ELSE 1]_vars
  /\ [][(TimedOut' /\ ~TimedOut)
        => /\ pc = "loop"
           /\ LoopContinues
           /\ UNCHANGED <<turns, history, exec, subCallCount, output,
                          compressedHistory, observed>>]_vars
  /\ [][(TimedOut /\ pending' = pending)
        => UNCHANGED <<turns, history, exec, subCallCount, lastCall>>]_vars

C31_Witness ==
  /\ TimedOut
  /\ turn = 3
  /\ Len(result.turns) = 2
  /\ result.turns[2].code


\* ---------------------------------------------------------------- C32
\* The view buildOptimizedHistory returned, as the positions (from 0) in
\* the full history of the messages it holds, in order; -1 stands for the
\* compression summary, which is no message of the full history.
ViewEntries(v) ==
  <<0>> \o (IF v.summary THEN <<-1>> ELSE <<>>)
        \o [i \in 1..(v.length - v.startIndex) |-> v.startIndex + i - 1]

\* C32: buildOptimizedHistory leaves the full history as it is: the turn
\* that starts has as many messages behind it as before the call.  The view
\* is the full history when that has at most 2*slidingWindowSize+2
\* messages; otherwise it starts with the first message, ends with the last
\* 2*slidingWindowSize messages in their order, and has at most
\* 2*slidingWindowSize+2 messages.
C32_ViewIsWindowOfHistory ==
  /\ [](view # NoView =>
          LET w == ctxConfig.slidingWindowSize
              n == view.length
              e == ViewEntries(view)
          IN IF n <= 2 * w + 2
             THEN e = [i \in 1..n |-> i - 1]
             ELSE /\ e[1] = 0
                  /\ Len(e) <= 2 * w + 2
                  /\ Len(e) >= 2 * w + 1
                  /\ \A k \in 1..(2 * w) :
                       e[Len(e) - 2 * w + k] = n - 2 * w + k - 1)
  /\ [][(pc = "loop" /\ pc' = "call")
        => /\ histBase' + Len(history') = histBase + Len(history)
           /\ view'.length = histBase + Len(history)]_vars

C32_Witness ==
  /\ pc = "call"
  /\ view.length = 2 * ctxConfig.slidingWindowSize + 3
  /\ ViewEntries(view) = <<0, 3, 4, 5, 6, 7, 8>>


\* ---------------------------------------------------------------- C33
\* C33: a driver that records every pass with recordPass and stops as soon
\* as the returned shouldContinue is false records at most maxPasses
\* passes; the recorded passes are numbered 1, 2, ... in order; and the pass
\* history is emptied, never shortened otherwise, when a new query starts.
C33_AtMostMaxPasses ==
  /\ [](Len(passHistory) <= rfConfig.maxPasses)
  /\ [](\A i \in 1..Len(passHistory) : passHistory[i].pass = i)
  /\ [][Len(passHistory') < Len(passHistory) => passHistory' = <<>>]_vars


\* ---------------------------------------------------------------- C34
\* The invocation i was given up by its race and is still in flight.
Abandoned(i) ==
  ~(tasks[i[1]].state = "calling" /\ tasks[i[1]].attempt = i[2])

\* C34: executeBatch terminates whatever the delegate does: a started call
\* returns or throws, and with failFast unset it returns with every query
\* id in results or errors; no query makes more than retryCount+1 attempts;
\* a result is recorded only for the invocation its callback is awaiting,
\* and the settling of an invocation given up after its timeout records
\* nothing.
C34_ExecuteBatchTerminates ==
  /\ (peState.status = "running") ~> (peState.status \in {"returned", "threw"})
  /\ (peState.status = "running" /\ ~peConfig.failFast)
       ~> (/\ peState.status = "returned"
           /\ (DOMAIN results) \cup (DOMAIN errors) = 1..queries)
  /\ [](\A q \in DOMAIN tasks : tasks[q].invoked <= peConfig.retryCount + 1)
  /\ [][\A q \in (DOMAIN results') \ (DOMAIN results) :
          /\ Calling(q)
          /\ results'[q].attempt = tasks[q].attempt]_vars
  /\ [][(\E i \in inflight \ inflight' : Abandoned(i))
        => UNCHANGED <<results, errors, tasks, peState>>]_vars

\* Three queries whose first invocations never settled before the timeout:
\* every query ended in errors after two attempts, and the batch returned
\* while invocations were still in flight.
C34_Witness ==
  /\ peState.status = "returned"
  /\ ~peConfig.failFast
  /\ peConfig.retryCount = 1
  /\ queries = 3
  /\ DOMAIN errors = 1..3
  /\ \A q \in 1..3 : errors[q].kind = "timeout" /\ tasks[q].invoked = 2
  /\ inflight # {}


\* ---------------------------------------------------------------- C35
\* C35: the memory bank the turn loop builds holds findings without source
\* and at most one entry of each finding type, hence at most five entries;
\* within a call an entry once stored stays, so a later finding of its type
\* is dropped whatever its importance.
C35_OneEntryPerType ==
  /\ [](\A i \in 1..Len(memoryBank) :
          /\ memoryBank[i].source = Null
          /\ memoryBank[i].type \in MemoryTypes
          /\ \A j \in 1..Len(memoryBank) :
               memoryBank[i].type = memoryBank[j].type => i = j)
  /\ [](Len(memoryBank) <= Cardinality(MemoryTypes))
  /\ [][pending' = pending => Range(memoryBank) \subseteq Range(memoryBank')]_vars

\* The first turn stored an issue of importance 1 among five entries; the
\* second turn's script got a finding line for an issue of importance 2,
\* which is not in the bank after the turn was registered.
C35_Witness ==
  /\ pc = "check"
  /\ turn = 2
  /\ Len(memoryBank) = 5
  /\ Finding(4, "issue", 1) \in Range(memoryBank)
  /\ exec.success
  /\ Finding(6, "issue", 2) \in Range(exec.findings)
  /\ Finding(6, "issue", 2) \notin Range(memoryBank)

\* ---------------------------------------------------------------- C36
\* C36: when the response of a turn has been analysed, a memory reminder is
\* appended to history exactly when the recommendation is inject_memory or
\* summarize and the memory bank is not empty; the recommendation is
\* restart exactly when the confidence is 60 or more, and then, as with
\* none, the step leaves history, memory bank, compressed history, turn
\* counter, turn records and the sandbox's state as they were.
C36_RestartTriggersNothing ==
  [][(pc = "call" /\ pc' = "respond")
     => /\ history' =
             IF rotIndicators'.recommendation \in {"inject_memory", "summarize"}
                /\ memoryBank # <<>>
             THEN Append(history, MemoryMsg(turn))
             ELSE history
        /\ (rotIndicators'.recommendation = "restart")
             = (rotIndicators'.confidence >= 60)
        /\ rotIndicators'.recommendation \in {"restart", "none"}
             => UNCHANGED <<history, memoryBank, compressedHistory, turn,
                            turns, subCallCount, finalAnswer, output, exec>>
       ]_vars

\* A response scored 60 arrived while the memory bank held entries, and no
\* reminder was pushed.
C36_Witness ==
  /\ pc = "respond"
  /\ rotIndicators.recommendation = "restart"
  /\ rotIndicators.confidence = 60
  /\ memoryBank # <<>>
  /\ history = <<>>


\* ---------------------------------------------------------------- C37
\* C37: within a processQuery call the usage estimate is written only by
\* the step that receives the turn's response, once for every turn that is
\* recorded; the value written is the token estimate of the whole history,
\* whatever part of it the view holds; and from one step to the next
\* neither the estimate nor the compression level goes down.
C37_UsageNeverDecreases ==
  /\ [][currentUsage' # currentUsage => (pc = "call" /\ pc' = "respond")]_vars
  /\ [][(pc = "call" /\ pc' = "respond")
        => currentUsage' =
             ((histBase' + Len(history')) * MessageChars + 3) \div 4]_vars
  /\ [](pc \in {"respond", "sandbox"}
          => currentUsage =
               ((histBase + Len(history)) * MessageChars + 3) \div 4)
  /\ [][pending' = pending
        => /\ currentUsage' >= currentUsage
           /\ LevelRank(getCompressionLevel')
                >= LevelRank(getCompressionLevel)]_vars

\* The third turn's response arrived on a history of nine messages, of
\* which the view held seven: the estimate is of the nine and the level
\* has gone from none to emergency.
C37_Witness ==
  /\ pc = "respond"
  /\ turn = 3
  /\ view.length = 9
  /\ view.startIndex = 3
  /\ ~view.summary
  /\ currentUsage = 900
  /\ getCompressionLevel = "emergency"

\* ---------------------------------------------------------------- C38
\* The weights the claim gives for a query: the defaults, with issues at
\* 2.0 and patterns at 0.8 for a security query, patterns at 2.0 and file
\* analysis at 1.2 for an architecture query (which comes second), and
\* dependencies at 2.0 for a dependency query.
WeightsFor(query) ==
  [fileAnalysis |-> IF query.architecture THEN 12
                    ELSE DEFAULT_ATTENTION_WEIGHTS.fileAnalysis,
   patterns     |-> IF query.architecture THEN 20
                    ELSE IF query.security THEN 8
                    ELSE DEFAULT_ATTENTION_WEIGHTS.patterns,
   dependencies |-> IF query.dependency THEN 20
                    ELSE DEFAULT_ATTENTION_WEIGHTS.dependencies,
   issues       |-> IF query.security THEN 20
                    ELSE DEFAULT_ATTENTION_WEIGHTS.issues,
   summaries    |-> DEFAULT_ATTENTION_WEIGHTS.summaries]

\* C38: when a processQuery call has set up its session, the attention
\* weights are the defaults with the overrides of that call's query and no
\* other: they are a function of the query alone.
C38_WeightsDependOnQueryAlone ==
  SessionStarts => weights = WeightsFor(queryContext)



Unstructured(text) ==
  \A i \in 1..Len(text) : text[i].kind \in {"plain", "blank"}

\* C40: a delegated-call output that is not empty and longer than the
\* budget comes back from compressResult (budget maxResultLength) and from
\* compressAdaptively (budget getMaxResultLength(baseMaxLength)) as a text
\* that is not empty and within the budget, and an output without heading,
\* bullet, numbered or marker lines comes back ending with the truncation
\* marker.
C40_NeverEmptyWithinBudget ==
  (Len(texts) >= 2 /\ Length(texts[1]) > 0) =>
    LET adaptive == acResult.op = "compressAdaptively"
        budget == IF adaptive THEN acResult.value
                  ELSE ctxConfig.maxResultLength
        marker == IF adaptive THEN CompressedMarkerLine ELSE MarkerLine
    IN Length(texts[1]) > budget =>
         /\ Length(texts[2]) > 0
         /\ Length(texts[2]) <= budget
         /\ Unstructured(texts[1]) => texts[2][Len(texts[2])] = marker

====
